---- MODULE Spec2Model ----
(***************************************************************************)
(* Model of sysinv/puppet/interface.py: the interface classifier and the   *)
(* network_config / route_config / address_config generation pipeline of   *)
(* InterfacePuppet.get_host_config.                                        *)
(*                                                                         *)
(* Python dicts are functions with string domains; a key is present iff it *)
(* is in the DOMAIN.  Entity records (interfaces, addresses) are dicts, so *)
(* the cache keys the code writes onto them ("_kernel", "_data", ...) are  *)
(* visible as extra keys of the record.                                    *)
(***************************************************************************)
EXTENDS Integers, Sequences, FiniteSets, TLC

VARIABLES
    host,        \* host record: hostname, personality, subfunctions
    system,      \* system record: system_mode, distributed_cloud_role
    db,          \* what the query layer returns: interfaces, ports, addresses, routes, networks, ...
    interfaces,  \* context['interfaces']: ifname -> interface dict (aliases the db records)
    addresses,   \* context['addresses']:  ifname -> list of address dicts
    routes,      \* context['routes']:     ifname -> list of route dicts
    config,      \* the resource map under construction
    emitted,     \* history: names of the network_config / route_config writes, in order
    todo,        \* generate_interface_configs: the sorted interfaces still to visit
    pc,          \* position inside get_host_config
    error,       \* the exception that aborted the call, or NoErr
    returned,    \* <<config>> once get_host_config has returned config, else <<>>
    pass,        \* 1 for the first get_host_config call, 2 for the second
    first        \* outcome of the first call, kept for comparison

vars == <<host, system, db, interfaces, addresses, routes, config, emitted,
          todo, pc, error, returned, pass, first>>

-----------------------------------------------------------------------------
(* Bounds of the model *)

\* Recursion depth at which the interpreter raises RuntimeError
\* ("maximum recursion depth exceeded"); deeper than any acyclic stack here.
RecursionLimit == 6

\* Largest number of routes attached to one interface.
MaxRoutes == 2

-----------------------------------------------------------------------------
(* Python values *)

NoneVal == "None"
NoErr == "ok"
EmptyDict == [k \in {} |-> NoneVal]

Put(d, k, v) == [x \in (DOMAIN d) \cup {k} |-> IF x = k THEN v ELSE d[x]]
Update(d, e) == [x \in (DOMAIN d) \cup (DOMAIN e) |-> IF x \in DOMAIN e THEN e[x] ELSE d[x]]
Del(d, k) == [x \in (DOMAIN d) \ {k} |-> d[x]]
Get(d, k, default) == IF k \in DOMAIN d THEN d[k] ELSE default
Range(s) == {s[i] : i \in DOMAIN s}

\* result of a call that may write caches onto interface dicts or raise
Ret(ifs, v) == [ifs |-> ifs, val |-> v, err |-> NoErr]
Raise(ifs, e) == [ifs |-> ifs, val |-> NoneVal, err |-> e]

-----------------------------------------------------------------------------
(* Constants of interface.py *)

PLATFORM_NETWORK_TYPES == {"pxeboot", "mgmt", "infra", "oam", "data-vrs", "bm", "control"}
DATA_NETWORK_TYPES == {"data"}
PCI_NETWORK_TYPES == {"pci-sriov", "pci-passthrough"}
ACTIVE_STANDBY_AE_MODES == {"active_backup", "active-backup", "active_standby"}
BALANCED_AE_MODES == {"balanced", "balanced-xor"}
LACP_AE_MODES == {"802.3ad"}
DRIVER_MLX_CX3 == "mlx4_core"
DRIVER_MLX_CX4 == "mlx5_core"
MELLANOX_DRIVERS == {DRIVER_MLX_CX3, DRIVER_MLX_CX4}
LOOPBACK_IFNAME == "lo"
LOOPBACK_METHOD == "loopback"
NETWORK_CONFIG_RESOURCE == "platform::interfaces::network_config"
ROUTE_CONFIG_RESOURCE == "platform::interfaces::route_config"
ADDRESS_CONFIG_RESOURCE == "platform::addresses::address_config"

-----------------------------------------------------------------------------
(* sysinv.common.utils helpers used by interface.py *)

\* networktype is the interface's list of network types, primary first
get_network_type_list(iface) == iface["networktype"]

get_primary_network_type(iface) ==
    IF Len(iface["networktype"]) = 0 THEN NoneVal ELSE iface["networktype"][1]

get_personalities(h) == {h["personality"]} \cup h["subfunctions"]

-----------------------------------------------------------------------------
(* Interface classifier *)

is_platform_network_type(iface) ==
    get_primary_network_type(iface) \in PLATFORM_NETWORK_TYPES

is_data_network_type(iface) ==
    \E n \in Range(get_network_type_list(iface)) : n \in DATA_NETWORK_TYPES

is_controller(h) == h["personality"] = "controller"

is_compute_subfunction(h) ==
    IF h["personality"] = "compute" THEN TRUE
    ELSE IF "compute" \in h["subfunctions"] THEN TRUE
    ELSE FALSE

is_pci_interface(iface) ==
    get_primary_network_type(iface) \in PCI_NETWORK_TYPES

\* iface[key] = v  # cache the result; return iface[key]
Cache(ifs, ifname, key, v) == Ret([ifs EXCEPT ![ifname] = Put(@, key, v)], v)

\* the result r of the nested calls is cached, unless they raised
CacheResult(r, ifname, key) ==
    IF r.err # NoErr THEN r ELSE Cache(r.ifs, ifname, key, r.val)

RECURSIVE is_platform_interface(_, _, _)
RECURSIVE platform_uppers(_, _, _, _)
RECURSIVE platform_upper(_, _, _, _)

\* the for loop of is_platform_interface over upper_ifnames[k..]
platform_uppers(ifs, upper_ifnames, k, depth) ==
    IF k > Len(upper_ifnames) THEN Ret(ifs, FALSE)
    ELSE platform_upper(is_platform_interface(ifs, upper_ifnames[k], depth + 1),
                        upper_ifnames, k, depth)

\* the loop body, r being what is_platform_interface returned for the upper
\* interface: break on True
platform_upper(r, upper_ifnames, k, depth) ==
    IF r.err # NoErr THEN r
    ELSE IF r.val THEN r
    ELSE platform_uppers(r.ifs, upper_ifnames, k + 1, depth)

\* a variant that looks at the interface's own network type only
platform_by_own_type(ifs, ifname, depth) ==
    Cache(ifs, ifname, "_kernel", is_platform_network_type(ifs[ifname]))

\* a variant that looks one level up only
platform_by_direct_upper(ifs, ifname, depth) ==
    Ret(ifs, \/ is_platform_network_type(ifs[ifname])
             \/ \E k \in DOMAIN ifs[ifname]["used_by"] :
                    is_platform_network_type(ifs[ifs[ifname]["used_by"][k]]))

is_platform_interface(ifs, ifname, depth) ==
    IF "_kernel" \in DOMAIN ifs[ifname] THEN Ret(ifs, ifs[ifname]["_kernel"])
    ELSE IF depth > RecursionLimit THEN Raise(ifs, "RuntimeError")
    ELSE IF is_platform_network_type(ifs[ifname]) THEN Cache(ifs, ifname, "_kernel", TRUE)
    ELSE CacheResult(platform_uppers(ifs, ifs[ifname]["used_by"], 1, depth),
                     ifname, "_kernel")

RECURSIVE is_data_interface(_, _, _)
RECURSIVE data_uppers(_, _, _, _)
RECURSIVE data_upper(_, _, _, _)

data_uppers(ifs, upper_ifnames, k, depth) ==
    IF k > Len(upper_ifnames) THEN Ret(ifs, FALSE)
    ELSE data_upper(is_data_interface(ifs, upper_ifnames[k], depth + 1),
                    upper_ifnames, k, depth)

data_upper(r, upper_ifnames, k, depth) ==
    IF r.err # NoErr THEN r
    ELSE IF r.val THEN r
    ELSE data_uppers(r.ifs, upper_ifnames, k + 1, depth)

is_data_interface(ifs, ifname, depth) ==
    IF "_data" \in DOMAIN ifs[ifname] THEN Ret(ifs, ifs[ifname]["_data"])
    ELSE IF depth > RecursionLimit THEN Raise(ifs, "RuntimeError")
    ELSE IF is_data_network_type(ifs[ifname]) THEN Cache(ifs, ifname, "_data", TRUE)
    ELSE CacheResult(data_uppers(ifs, ifs[ifname]["used_by"], 1, depth), ifname, "_data")

get_interface_port(iface) == db.ports[iface["id"]]

\* a variant that names an ethernet interface after its database record
interface_record_name(iface) == iface["ifname"]

get_interface_port_name(iface) == get_interface_port(iface)["name"]

is_dpdk_compatible(ifs, ifname) ==
    IF "_dpdksupport" \in DOMAIN ifs[ifname] THEN Ret(ifs, ifs[ifname]["_dpdksupport"])
    ELSE Cache(ifs, ifname, "_dpdksupport",
               IF ifs[ifname]["iftype"] = "ethernet"
               THEN Get(get_interface_port(ifs[ifname]), "dpdksupport", FALSE)
               ELSE TRUE)

is_a_mellanox_device(iface) ==
    IF iface["iftype"] # "ethernet" THEN FALSE
    ELSE get_interface_port(iface)["driver"] \in MELLANOX_DRIVERS

is_a_mellanox_cx3_device(iface) ==
    IF iface["iftype"] # "ethernet" THEN FALSE
    ELSE get_interface_port(iface)["driver"] = DRIVER_MLX_CX3

\* the loop of get_master_interface: the first AE interface of used_by, or None
first_ae_upper(ifs, upper_ifnames) ==
    IF \A k \in DOMAIN upper_ifnames : ifs[upper_ifnames[k]]["iftype"] # "ae" THEN NoneVal
    ELSE ifs[upper_ifnames[CHOOSE k \in DOMAIN upper_ifnames :
                /\ ifs[upper_ifnames[k]]["iftype"] = "ae"
                /\ \A j \in 1..(k - 1) : ifs[upper_ifnames[j]]["iftype"] # "ae"]]["ifname"]

get_master_interface(ifs, ifname) ==
    IF "_master" \in DOMAIN ifs[ifname] THEN Ret(ifs, ifs[ifname]["_master"])
    ELSE Cache(ifs, ifname, "_master",
               IF ifs[ifname]["iftype"] = "ethernet"
               THEN first_ae_upper(ifs, ifs[ifname]["used_by"])
               ELSE NoneVal)

\* a variant that memoizes every interface with an upper interface as a slave
slave_of_any_upper(ifs, ifname) ==
    IF "_slave" \in DOMAIN ifs[ifname] THEN Ret(ifs, ifs[ifname]["_slave"])
    ELSE Cache(ifs, ifname, "_slave", ifs[ifname]["used_by"] # <<>>)

is_slave_interface(ifs, ifname) ==
    LET from_master(m) == Cache(m.ifs, ifname, "_slave", m.val # NoneVal) IN
    IF "_slave" \in DOMAIN ifs[ifname] THEN Ret(ifs, ifs[ifname]["_slave"])
    ELSE from_master(get_master_interface(ifs, ifname))

get_interface_mtu(iface) == iface["imtu"]

RECURSIVE get_interface_os_ifname(_, _, _)

\* a variant in which a VLAN is its own lower interface
lower_is_itself(ifs, iface) == iface["ifname"]

get_lower_interface(ifs, iface) == iface["uses"][1]

get_lower_interface_os_ifname(ifs, iface, depth) ==
    get_interface_os_ifname(ifs, get_lower_interface(ifs, iface), depth + 1)

\* a variant that names a bond after its first member, as a VLAN is named
\* after its lower interface
os_ifname_through_bond(ifs, ifname, depth) ==
    IF ifs[ifname]["iftype"] = "ethernet" THEN Ret(ifs, get_interface_port_name(ifs[ifname]))
    ELSE IF ifs[ifname]["iftype"] = "ae"
         THEN get_interface_os_ifname(ifs, ifs[ifname]["uses"][1], depth + 1)
    ELSE Ret(ifs, get_lower_interface_os_ifname(ifs, ifs[ifname], depth).val \o "."
                  \o ToString(ifs[ifname]["vlan_id"]))

get_interface_os_ifname(ifs, ifname, depth) ==
    LET from_lower(r) ==
            IF r.err # NoErr THEN r
            ELSE Cache(r.ifs, ifname, "_os_ifname",
                       r.val \o "." \o ToString(ifs[ifname]["vlan_id"]))
    IN
    IF "_os_ifname" \in DOMAIN ifs[ifname] THEN Ret(ifs, ifs[ifname]["_os_ifname"])
    ELSE IF depth > RecursionLimit THEN Raise(ifs, "RuntimeError")
    ELSE IF ifs[ifname]["iftype"] = "ethernet"
         THEN Cache(ifs, ifname, "_os_ifname", get_interface_port_name(ifs[ifname]))
    ELSE IF ifs[ifname]["iftype"] = "vlan"
         THEN from_lower(get_lower_interface_os_ifname(ifs, ifs[ifname], depth))
    ELSE Cache(ifs, ifname, "_os_ifname", ifs[ifname]["ifname"])

get_bridge_interface_name(ifs, ifname) ==
    LET with_os(o) ==
            IF o.err # NoErr THEN o ELSE Cache(o.ifs, ifname, "_bridge", "br-" \o o.val)
        with_dpdk(k) ==
            IF k.val THEN Cache(k.ifs, ifname, "_bridge", NoneVal)
            ELSE with_os(get_interface_os_ifname(k.ifs, ifname, 0))
        with_data(d) ==
            IF d.err # NoErr THEN d
            ELSE IF ~d.val THEN Cache(d.ifs, ifname, "_bridge", NoneVal)
            ELSE with_dpdk(is_dpdk_compatible(d.ifs, ifname))
    IN
    IF "_bridge" \in DOMAIN ifs[ifname] THEN Ret(ifs, ifs[ifname]["_bridge"])
    ELSE IF ifs[ifname]["iftype"] # "ethernet" THEN Cache(ifs, ifname, "_bridge", NoneVal)
    ELSE with_data(is_data_interface(ifs, ifname, 0))

\* a variant without the accelerated-datapath bridge
never_bridged(ifs, ifname) == Ret(ifs, FALSE)

is_bridged_interface(ifs, ifname) ==
    LET from_bridge(b) ==
            IF b.err # NoErr THEN b ELSE Cache(b.ifs, ifname, "_bridged", b.val # NoneVal)
    IN
    IF "_bridged" \in DOMAIN ifs[ifname] THEN Ret(ifs, ifs[ifname]["_bridged"])
    ELSE from_bridge(get_bridge_interface_name(ifs, ifname))

\* p, d and k are what is_platform_interface, is_data_interface and
\* is_dpdk_compatible returned
needs_interface_config(ifs, ifname) ==
    LET with_dpdk(k) ==
            IF ~k.val THEN Ret(k.ifs, TRUE)
            ELSE IF is_a_mellanox_device(k.ifs[ifname]) THEN Ret(k.ifs, TRUE)
            ELSE Ret(k.ifs, FALSE)
        with_data(d) ==
            IF d.err # NoErr THEN d
            ELSE IF d.val THEN with_dpdk(is_dpdk_compatible(d.ifs, ifname))
            ELSE IF is_pci_interface(d.ifs[ifname]) THEN Ret(d.ifs, TRUE)
            ELSE Ret(d.ifs, FALSE)
        with_platform(p) ==
            IF p.err # NoErr THEN p
            ELSE IF p.val THEN Ret(p.ifs, TRUE)
            ELSE IF ~is_compute_subfunction(host) THEN Ret(p.ifs, FALSE)
            ELSE with_data(is_data_interface(p.ifs, ifname, 0))
    IN with_platform(is_platform_interface(ifs, ifname, 0))

-----------------------------------------------------------------------------
(* Address-method resolver and netmask derivation *)

\* netaddr parses the literal: the IPv6 literals of the model's address universe
IPv6Literals == {"fd00::2", "fd00::3", "fd00::4"}

IPVersion(literal) == IF literal \in IPv6Literals THEN 6 ELSE 4

Min(a, b) == IF a < b THEN a ELSE b
Max(a, b) == IF a > b THEN a ELSE b

\* octet i (1..4) of the IPv4 netmask of a prefix length
NetmaskOctet(prefix, i) == 256 - 2 ^ (8 - Max(0, Min(8, prefix - 8 * (i - 1))))

\* str(IPNetwork(...).netmask) for an IPv4 network
IPv4Netmask(prefix) ==
    ToString(NetmaskOctet(prefix, 1)) \o "." \o ToString(NetmaskOctet(prefix, 2)) \o "." \o
    ToString(NetmaskOctet(prefix, 3)) \o "." \o ToString(NetmaskOctet(prefix, 4))

_set_address_netmask(address) ==
    IF IPVersion(address["address"]) = 6
    THEN Put(address, "netmask", ToString(address["prefix"]))
    ELSE Put(address, "netmask", IPv4Netmask(address["prefix"]))

\* returns the primary address (found is FALSE for None) and the address index,
\* whose first entry for the interface now carries the netmask
get_interface_primary_address(addrs, iface) ==
    IF Len(Get(addrs, iface["ifname"], <<>>)) > 0
    THEN [addrs |-> [addrs EXCEPT ![iface["ifname"]] =
                        [@ EXCEPT ![1] = _set_address_netmask(@)]],
          found |-> TRUE,
          val |-> _set_address_netmask(addrs[iface["ifname"]][1])]
    ELSE [addrs |-> addrs, found |-> FALSE, val |-> NoneVal]

get_interface_address_family(addrs, iface) ==
    LET family(r) == [addrs |-> r.addrs,
                      val |-> IF ~r.found THEN "inet"
                              ELSE IF IPVersion(r.val["address"]) = 4 THEN "inet"
                              ELSE "inet6"]
    IN family(get_interface_primary_address(addrs, iface))

get_interface_gateway_address(iface) ==
    Get(db.gateways, get_primary_network_type(iface), NoneVal)

\* a variant without the pxeboot rule: off a controller every remaining type
\* gets its address by dhcp
address_method_without_pxeboot_rule(h, iface) ==
    IF get_primary_network_type(iface) \in {NoneVal, "data", "pci-sriov", "pci-passthrough"}
    THEN "manual"
    ELSE IF get_primary_network_type(iface) \in {"control", "data-vrs", "bm"} THEN "static"
    ELSE IF is_controller(h) THEN "static"
    ELSE "dhcp"

get_interface_address_method(h, iface) ==
    LET networktype == get_primary_network_type(iface) IN
    IF networktype = NoneVal THEN "manual"
    ELSE IF networktype \in DATA_NETWORK_TYPES THEN "manual"
    ELSE IF networktype = "control" THEN "static"
    ELSE IF networktype = "data-vrs" THEN "static"
    ELSE IF networktype = "bm" THEN "static"
    ELSE IF networktype \in PCI_NETWORK_TYPES THEN "manual"
    ELSE IF is_controller(h) THEN "static"
    ELSE IF networktype = "pxeboot" THEN "manual"
    ELSE "dhcp"

get_interface_routes(rts, iface) == Get(rts, iface["ifname"], <<>>)

get_network_speed(networktype) ==
    IF networktype \in DOMAIN db.networks
    THEN db.networks[networktype]["link_capacity"]
    ELSE 0

\* called once the OS interface name is known (os_ifname)
get_interface_traffic_classifier(iface, os_ifname) ==
    LET networktype == get_primary_network_type(iface) IN
    IF networktype \in {"mgmt", "infra"}
    THEN "/usr/local/bin/cgcs_tc_setup.sh " \o os_ifname \o " " \o networktype \o " "
         \o ToString(get_network_speed(networktype)) \o " > /dev/null"
    ELSE NoneVal

-----------------------------------------------------------------------------
(* Resource generators *)

\* mtu = 0 stands for the default mtu=None
get_basic_network_config(ifname, method, family, mtu) ==
    LET base == [ifname |-> ifname, ensure |-> "present", family |-> family,
                 method |-> method, hotplug |-> "false", onboot |-> "true",
                 options |-> EmptyDict]
    IN IF mtu # 0 THEN Put(base, "mtu", ToString(mtu)) ELSE base

get_vlan_network_config(iface, cfg) ==
    Put(cfg, "options",
        Update(cfg["options"], [VLAN |-> "yes", pre_up |-> "/sbin/modprobe -q 8021q"]))

get_bond_interface_options(iface) ==
    LET ae_mode == iface["aemode"]
        tail == "xmit_hash_policy=" \o iface["txhashpolicy"] \o " miimon=100"
    IN IF ae_mode \in ACTIVE_STANDBY_AE_MODES THEN "mode=active-backup miimon=100"
       ELSE IF ae_mode \in BALANCED_AE_MODES THEN "mode=balance-xor " \o tail
       ELSE IF ae_mode \in LACP_AE_MODES THEN "mode=802.3ad lacp_rate=fast " \o tail
       ELSE tail

get_bond_network_config(iface, cfg) ==
    LET bonding_options == get_bond_interface_options(iface)
        options == IF bonding_options # ""
                   THEN [MACADDR |-> iface["imac"], BONDING_OPTS |-> bonding_options,
                         up |-> "sleep 10"]
                   ELSE [MACADDR |-> iface["imac"]]
    IN Put(cfg, "options", Update(cfg["options"], options))

sriovfs_path(iface) ==
    "/sys/class/net/" \o get_interface_port_name(iface) \o "/device/sriov_numvfs"

\* a variant that writes the VF script on every SR-IOV port
ethernet_config_without_cx3_rule(ifs, ifname, cfg) ==
    LET networktype == get_primary_network_type(ifs[ifname])
        options == [LINKDELAY |-> "20"]
        update(i, o) == Ret(i, Put(cfg, "options", Update(cfg["options"], o)))
        with_bridge(n) == update(n.ifs, Put(options, "BRIDGE", n.val))
        with_master(m) ==
            update(m.ifs, Update(options, [SLAVE |-> "yes", MASTER |-> m.val,
                                           PROMISC |-> "yes"]))
        with_slave(s) ==
            IF s.val THEN with_master(get_master_interface(s.ifs, ifname))
            ELSE IF networktype = "pci-sriov"
                 THEN update(s.ifs, Put(options, "pre_up",
                                "echo 0 > " \o sriovfs_path(ifs[ifname]) \o "; echo "
                                \o ToString(ifs[ifname]["sriov_numvfs"]) \o " > "
                                \o sriovfs_path(ifs[ifname])))
            ELSE IF networktype = "pci-passthrough"
                 THEN update(s.ifs, Put(options, "pre_up",
                           "if [ -f  " \o sriovfs_path(ifs[ifname]) \o " ]; then echo 0 > "
                           \o sriovfs_path(ifs[ifname]) \o "; fi"))
            ELSE update(s.ifs, options)
        with_bridged(b) ==
            IF b.err # NoErr THEN b
            ELSE IF b.val THEN with_bridge(get_bridge_interface_name(b.ifs, ifname))
            ELSE with_slave(is_slave_interface(b.ifs, ifname))
    IN with_bridged(is_bridged_interface(ifs, ifname))

\* returns the augmented config and the interface index with the caches written
get_ethernet_network_config(ifs, ifname, cfg) ==
    LET networktype == get_primary_network_type(ifs[ifname])
        options == [LINKDELAY |-> "20"]
        update(i, o) == Ret(i, Put(cfg, "options", Update(cfg["options"], o)))
        with_bridge(n) == update(n.ifs, Put(options, "BRIDGE", n.val))
        with_master(m) ==
            update(m.ifs, Update(options, [SLAVE |-> "yes", MASTER |-> m.val,
                                           PROMISC |-> "yes"]))
        with_slave(s) ==
            IF s.val THEN with_master(get_master_interface(s.ifs, ifname))
            ELSE IF networktype = "pci-sriov"
                 THEN IF ~is_a_mellanox_cx3_device(ifs[ifname])
                      THEN update(s.ifs, Put(options, "pre_up",
                                "echo 0 > " \o sriovfs_path(ifs[ifname]) \o "; echo "
                                \o ToString(ifs[ifname]["sriov_numvfs"]) \o " > "
                                \o sriovfs_path(ifs[ifname])))
                      ELSE update(s.ifs, options)
            ELSE IF networktype = "pci-passthrough"
                 THEN update(s.ifs, Put(options, "pre_up",
                           "if [ -f  " \o sriovfs_path(ifs[ifname]) \o " ]; then echo 0 > "
                           \o sriovfs_path(ifs[ifname]) \o "; fi"))
            ELSE update(s.ifs, options)
        with_bridged(b) ==
            IF b.err # NoErr THEN b
            ELSE IF b.val THEN with_bridge(get_bridge_interface_name(b.ifs, ifname))
            ELSE with_slave(is_slave_interface(b.ifs, ifname))
    IN with_bridged(is_bridged_interface(ifs, ifname))

\* a variant without the special case of the zero prefix length
route_config_by_prefix(route, ifname) ==
    [name |-> route["network"] \o "/" \o ToString(route["prefix"]),
     ensure |-> "present",
     gateway |-> route["gateway"],
     interface |-> ifname,
     netmask |-> IPv4Netmask(route["prefix"]),
     network |-> route["network"],
     options |-> "metric " \o ToString(route["metric"])]

get_route_config(route, ifname) ==
    [name |-> IF route["prefix"] # 0
              THEN route["network"] \o "/" \o ToString(route["prefix"])
              ELSE "default",
     ensure |-> "present",
     gateway |-> route["gateway"],
     interface |-> ifname,
     netmask |-> IF route["prefix"] # 0 THEN IPv4Netmask(route["prefix"]) ELSE "0.0.0.0",
     network |-> IF route["prefix"] # 0 THEN route["network"] ELSE "default",
     options |-> "metric " \o ToString(route["metric"])]

\* a variant that tolerates a missing static address on every network type
common_config_unasserted(addrs, iface, os_ifname, cfg) == [val |-> cfg, err |-> NoErr]

\* val is the augmented config; err is AssertionError when a static interface
\* other than a control interface has no primary address
get_common_network_config(addrs, iface, os_ifname, cfg) ==
    LET with_gateway(c, gateway) ==
            [val |-> IF gateway # NoneVal THEN Put(c, "gateway", gateway) ELSE c,
             err |-> NoErr]
        with_address(c, a) ==
            IF ~a.found
            THEN IF get_primary_network_type(iface) = "control"
                 THEN [val |-> c, err |-> NoErr]
                 ELSE [val |-> c, err |-> "AssertionError"]
            ELSE with_gateway(Update(c, [ipaddress |-> a.val["address"],
                                         netmask |-> a.val["netmask"]]),
                              get_interface_gateway_address(iface))
        with_classifier(c) ==
            IF get_interface_address_method(host, iface) # "static"
            THEN [val |-> c, err |-> NoErr]
            ELSE with_address(c, get_interface_primary_address(addrs, iface))
        classified(traffic_classifier) ==
            IF traffic_classifier # NoneVal
            THEN Put(cfg, "options", Put(cfg["options"], "post_up", traffic_classifier))
            ELSE cfg
    IN with_classifier(classified(get_interface_traffic_classifier(iface, os_ifname)))

\* returns [ifs, addrs, val, err]
get_interface_network_config(ifs, addrs, ifname) ==
    LET raised(i, a, e) == [ifs |-> i, addrs |-> a, val |-> NoneVal, err |-> e]
        result(i, a, v) == [ifs |-> i, addrs |-> a, val |-> v, err |-> NoErr]
        with_ethernet(f, e) == [ifs |-> e.ifs, addrs |-> f.addrs, val |-> e.val, err |-> e.err]
        with_common(o, f, c) ==
            IF c.err # NoErr THEN raised(o.ifs, f.addrs, c.err)
            ELSE IF ifs[ifname]["iftype"] = "vlan"
                 THEN result(o.ifs, f.addrs, get_vlan_network_config(ifs[ifname], c.val))
            ELSE IF ifs[ifname]["iftype"] = "ae"
                 THEN result(o.ifs, f.addrs, get_bond_network_config(ifs[ifname], c.val))
            ELSE with_ethernet(f, get_ethernet_network_config(o.ifs, ifname, c.val))
        with_family(o, f) ==
            with_common(o, f,
                get_common_network_config(f.addrs, ifs[ifname], o.val,
                    get_basic_network_config(o.val,
                        get_interface_address_method(host, ifs[ifname]), f.val,
                        get_interface_mtu(ifs[ifname]))))
        with_os_ifname(o) ==
            IF o.err # NoErr THEN raised(o.ifs, addrs, o.err)
            ELSE with_family(o, get_interface_address_family(addrs, ifs[ifname]))
    IN with_os_ifname(get_interface_os_ifname(ifs, ifname, 0))

\* called for a bridged interface, whose OS name is already cached
get_bridge_network_config(ifs, addrs, ifname) ==
    LET typed(basic) == Put(basic, "options", Put(basic["options"], "TYPE", "Bridge")) IN
    typed(get_basic_network_config(
            "br-" \o get_interface_os_ifname(ifs, ifname, 0).val,
            get_interface_address_method(host, ifs[ifname]),
            get_interface_address_family(addrs, ifs[ifname]).val, 0))

get_bridged_network_config(ifs, addrs, ifname) ==
    LET renamed(avp_config) == Put(avp_config, "ifname", avp_config["ifname"] \o "-avp") IN
    [avp_config |-> renamed(get_interface_network_config(ifs, addrs, ifname).val),
     bridge_config |-> get_bridge_network_config(ifs, addrs, ifname)]

format_network_config(cfg) == Del(cfg, "ifname")

RECURSIVE route_updates(_, _, _, _)
\* the for loop over the routes of one interface: route_config after the updates
route_updates(route_config, list, k, os_ifname) ==
    IF k > Len(list) THEN route_config
    ELSE route_updates(Put(route_config, get_route_config(list[k], os_ifname)["name"],
                           get_route_config(list[k], os_ifname)),
                       list, k + 1, os_ifname)

\* returns [ifs, addrs, config, names, err]; names lists the resources written, in order
generate_network_config(ifs, addrs, rts, cfg, ifname) ==
    LET list == get_interface_routes(rts, ifs[ifname])
        bridged(network_config, pair) ==
            Update(network_config,
                   (pair.avp_config["ifname"] :> format_network_config(pair.avp_config)) @@
                   (pair.bridge_config["ifname"] :> format_network_config(pair.bridge_config)))
        written(n, b, network_config, pairnames) ==
            [ifs |-> b.ifs, addrs |-> n.addrs,
             config |-> [cfg EXCEPT
                           ![NETWORK_CONFIG_RESOURCE] = network_config,
                           ![ROUTE_CONFIG_RESOURCE] =
                               route_updates(@, list, 1, n.val["ifname"])],
             names |-> <<n.val["ifname"]>> \o pairnames
                       \o [k \in 1..Len(list) |->
                             get_route_config(list[k], n.val["ifname"])["name"]],
             err |-> NoErr]
        with_pair(n, b, network_config, pair) ==
            written(n, b, bridged(network_config, pair),
                    <<pair.avp_config["ifname"], pair.bridge_config["ifname"]>>)
        with_bridged(n, b, network_config) ==
            IF b.val
            THEN with_pair(n, b, network_config,
                           get_bridged_network_config(b.ifs, n.addrs, ifname))
            ELSE written(n, b, network_config, <<>>)
        with_config(n) ==
            IF n.err # NoErr
            THEN [ifs |-> n.ifs, addrs |-> n.addrs, config |-> cfg, names |-> <<>>,
                  err |-> n.err]
            ELSE with_bridged(n, is_bridged_interface(n.ifs, ifname),
                              Put(cfg[NETWORK_CONFIG_RESOURCE], n.val["ifname"],
                                  format_network_config(n.val)))
    IN with_config(get_interface_network_config(ifs, addrs, ifname))

-----------------------------------------------------------------------------
(* Orchestrator helpers *)

\* the interface names of the model, in Python's string order
IfNames == <<"avlan", "bmc0", "bond0", "cvlan", "eth0", "eth1">>

NameIndex(n) == CHOOSE i \in DOMAIN IfNames : IfNames[i] = n

\* a variant that sorts by name alone
name_sort_key(iface) == <<0, NameIndex(iface["ifname"])>>

interface_sort_key(iface) ==
    IF iface["iftype"] = "ethernet" THEN <<0, NameIndex(iface["ifname"])>>
    ELSE IF iface["iftype"] = "ae" THEN <<1, NameIndex(iface["ifname"])>>
    ELSE <<2, NameIndex(iface["ifname"])>>

KeyLess(a, b) == a[1] < b[1] \/ (a[1] = b[1] /\ a[2] < b[2])

RECURSIVE SortedBy(_, _)
\* sorted(names, key): the names of set S in increasing key order
SortedBy(ifs, S) ==
    IF S = {} THEN <<>>
    ELSE LET m == CHOOSE x \in S :
                    \A y \in S \ {x} : KeyLess(interface_sort_key(ifs[x]),
                                               interface_sort_key(ifs[y]))
         IN <<m>> \o SortedBy(ifs, S \ {m})

\* a variant that keeps the order of the database query
unsorted_routes(entries) == entries

RECURSIVE SortRoutes(_)
\* sorted(entries, key=prefix, reverse=True): stable, so ties keep the list order
SortRoutes(entries) ==
    IF Len(entries) = 0 THEN <<>>
    ELSE LET best == CHOOSE i \in DOMAIN entries :
                       /\ \A j \in DOMAIN entries : entries[j]["prefix"] <= entries[i]["prefix"]
                       /\ \A j \in 1..(i - 1) : entries[j]["prefix"] < entries[i]["prefix"]
             rest == [j \in 1..(Len(entries) - 1) |->
                        IF j < best THEN entries[j] ELSE entries[j + 1]]
         IN <<entries[best]>> \o SortRoutes(rest)

SelectSeq2(s, ifname) == SelectSeq(s, LAMBDA r : r["ifname"] = ifname)

_get_routes_interface_name_index(raw) ==
    [n \in {raw[i]["ifname"] : i \in DOMAIN raw} |-> SortRoutes(SelectSeq2(raw, n))]

\* the interfaces a dict iteration may meet first with this primary network type
find_interface_by_type(ifs, networktype) ==
    {n \in DOMAIN ifs : get_primary_network_type(ifs[n]) = networktype}

\* a variant that prefers the mgmt interface
bmc_lower_mgmt_first(ifs) ==
    IF find_interface_by_type(ifs, "mgmt") # {}
    THEN find_interface_by_type(ifs, "mgmt")
    ELSE find_interface_by_type(ifs, "pxeboot")

\* the interfaces the search may return, over every iteration order of the index:
\* the first pxeboot interface met, else the last mgmt interface met
_find_bmc_lower_interface(ifs) ==
    IF find_interface_by_type(ifs, "pxeboot") # {}
    THEN find_interface_by_type(ifs, "pxeboot")
    ELSE find_interface_by_type(ifs, "mgmt")

\* the fake BMC interface and address inserted over lower_ifname
_create_bmc_interface(ifs, addrs, lower_ifname, uuid) ==
    LET network == db.networks["bm"]
        addr == db.bm_address
        iface == [uuid |-> uuid, ifname |-> "bmc0", iftype |-> "vlan",
                  networktype |-> <<"bm">>, imtu |-> network["mtu"],
                  vlan_id |-> network["vlan_id"], uses |-> <<lower_ifname>>,
                  used_by |-> <<>>]
        address == [ifname |-> "bmc0", family |-> addr["family"], prefix |-> addr["prefix"],
                    address |-> addr["address"], networktype |-> "bm"]
    IN [ifs |-> Put([ifs EXCEPT ![lower_ifname] = Put(ifs[lower_ifname], "used_by", <<"bmc0">>)],
                    "bmc0", iface),
        addrs |-> Put(addrs, "bmc0", <<address>>)]

\* a variant that writes no loopback resource
no_loopback_config(cfg) == cfg

generate_loopback_config(cfg) ==
    [cfg EXCEPT ![NETWORK_CONFIG_RESOURCE] =
        Put(@, LOOPBACK_IFNAME,
            format_network_config(
                get_basic_network_config(LOOPBACK_IFNAME, LOOPBACK_METHOD, "inet", 0)))]

EmptyConfig ==
    (NETWORK_CONFIG_RESOURCE :> EmptyDict) @@ (ROUTE_CONFIG_RESOURCE :> EmptyDict) @@
    (ADDRESS_CONFIG_RESOURCE :> EmptyDict)

get_address_config(os_ifname, address) == [ifname |-> os_ifname, address |-> address]

\* a variant without the fallback of the pxeboot address to the management
\* interface
address_config_without_fallback(ifs, address_config, networktype, iface, mgmt_iface) ==
    IF iface = NoneVal THEN Ret(ifs, address_config)
    ELSE Ret(ifs, Put(address_config, networktype,
                      get_address_config(get_interface_os_ifname(ifs, iface, 0).val,
                                         db.floatingips[networktype])))

\* one iteration of the loop of generate_address_configs, for the floating IP of
\* networktype; iface and mgmt_iface are what find_interface_by_type returned
\* (an interface name or None).  Returns [ifs, val], val the address_config family.
address_config_step(ifs, address_config, networktype, iface, mgmt_iface) ==
    LET with_os_ifname(o) ==
            IF o.err # NoErr THEN o
            ELSE Ret(o.ifs, Put(address_config, networktype,
                                get_address_config(o.val, db.floatingips[networktype])))
        with_target(target) ==
            IF target = NoneVal THEN Ret(ifs, address_config)
            ELSE with_os_ifname(get_interface_os_ifname(ifs, target, 0))
    IN with_target(IF iface # NoneVal THEN iface
                   ELSE IF networktype = "pxeboot" THEN mgmt_iface
                   ELSE NoneVal)

FloatingTypes == <<"mgmt", "pxeboot", "oam">>

RECURSIVE generate_address_configs(_, _, _, _)
RECURSIVE address_configs_from(_, _, _)

\* the loop of generate_address_configs over the floating IPs FloatingTypes[k..];
\* pick[t] is the interface find_interface_by_type returns for type t
generate_address_configs(ifs, address_config, k, pick) ==
    IF k > Len(FloatingTypes) THEN Ret(ifs, address_config)
    ELSE IF FloatingTypes[k] \notin DOMAIN db.floatingips
         THEN generate_address_configs(ifs, address_config, k + 1, pick)
    ELSE address_configs_from(
            address_config_step(ifs, address_config, FloatingTypes[k],
                                pick[FloatingTypes[k]], pick["mgmt"]),
            k + 1, pick)

address_configs_from(r, k, pick) ==
    IF r.err # NoErr THEN r ELSE generate_address_configs(r.ifs, r.val, k, pick)

\* what find_interface_by_type may return: one of the matches, or None without any
FindResults(ifs, networktype) ==
    IF find_interface_by_type(ifs, networktype) = {} THEN {NoneVal}
    ELSE find_interface_by_type(ifs, networktype)

find_sriov_interfaces_by_driver(ifs, driver) ==
    {n \in DOMAIN ifs :
        /\ ifs[n]["iftype"] = "ethernet"
        /\ get_interface_port(ifs[n])["driver"] = driver
        /\ get_primary_network_type(ifs[n]) = "pci-sriov"}

\* t in s for two Python strings: t occurs in s as a substring
Contains(s, t) == \E i \in 1..(Len(s) - Len(t) + 1) : SubSeq(s, i, i + Len(t) - 1) = t

\* a variant that never finds the address
address_never_in_options(pciaddr, num_vfs_options) == FALSE

PciaddrInOptions(pciaddr, num_vfs_options) == Contains(num_vfs_options, pciaddr)

mlx4_entry(port, iface) ==
    port["pciaddr"] \o "-" \o ToString(iface["sriov_numvfs"]) \o ";0;0"

RECURSIVE mlx4_entries(_, _, _, _)
\* the loop of build_mlx4_num_vfs_options over ifaces (the matches in iteration order)
mlx4_entries(ifs, ifaces, k, num_vfs_options) ==
    IF k > Len(ifaces) THEN num_vfs_options
    ELSE IF PciaddrInOptions(get_interface_port(ifs[ifaces[k]])["pciaddr"], num_vfs_options)
    THEN mlx4_entries(ifs, ifaces, k + 1, num_vfs_options)
    ELSE IF num_vfs_options = ""
    THEN mlx4_entries(ifs, ifaces, k + 1,
            mlx4_entry(get_interface_port(ifs[ifaces[k]]), ifs[ifaces[k]]))
    ELSE mlx4_entries(ifs, ifaces, k + 1,
            num_vfs_options \o ","
                \o mlx4_entry(get_interface_port(ifs[ifaces[k]]), ifs[ifaces[k]]))

build_mlx4_num_vfs_options(ifs, ifaces) == mlx4_entries(ifs, ifaces, 1, "")

generate_mlx4_core_options(ifs, cfg, ifaces) ==
    LET with_options(num_vfs_options) ==
            IF num_vfs_options = "" THEN cfg
            ELSE Put(cfg, "platform::networking::mlx4_core_options",
                     "port_type_array=2,2 num_vfs=" \o num_vfs_options)
    IN with_options(build_mlx4_num_vfs_options(ifs, ifaces))

generate_driver_config(ifs, cfg, ifaces) ==
    IF is_compute_subfunction(host) THEN generate_mlx4_core_options(ifs, cfg, ifaces) ELSE cfg

\* sysinv.common.utils.get_dhcp_cid
get_dhcp_cid(hostname, networktype, mac) == hostname \o ":" \o networktype \o ":" \o mac

generate_dhcp_config(ifs, cfg, infra_interface) ==
    IF ~is_controller(host) /\ infra_interface # NoneVal
    THEN Put(cfg, "platform::dhclient::params::infra_client_id",
             get_dhcp_cid(host["hostname"], "infra", ifs[infra_interface]["imac"]))
    ELSE cfg

\* every order in which a dict iteration may list the members of S
Orders(S) == {o \in [1..Cardinality(S) -> S] : \A i, j \in DOMAIN o : i # j => o[i] # o[j]}

-----------------------------------------------------------------------------
(* The inputs: hosts and topologies the query layer may return *)

VlanIds == [avlan |-> 10, cvlan |-> 20]

Iface(name, iftype, networktype, uses, used_by, aemode) ==
    [id |-> NameIndex(name), ifname |-> name, iftype |-> iftype,
     networktype |-> networktype, imtu |-> 1500,
     vlan_id |-> IF iftype = "vlan" THEN VlanIds[name] ELSE NoneVal,
     uses |-> uses, used_by |-> used_by, aemode |-> aemode,
     txhashpolicy |-> IF iftype = "ae" THEN "layer2" ELSE NoneVal,
     imac |-> "08:00:27:00:00:0" \o ToString(NameIndex(name)),
     sriov_numvfs |-> IF name = "eth0" THEN 4 ELSE IF name = "eth1" THEN 2 ELSE 0]

EthTypes == {<<>>, <<"pxeboot">>, <<"mgmt">>, <<"oam">>, <<"infra">>, <<"control">>,
             <<"data-vrs">>, <<"data">>, <<"pci-sriov">>, <<"pci-passthrough">>,
             <<"pci-sriov", "data">>}
BondTypes == {<<>>, <<"pxeboot">>, <<"mgmt">>, <<"data">>}
PairTypes == {<<"pci-sriov">>, <<"data">>, <<"mgmt">>}
\* one mode of each list and one that is in none of them
AeModes == {"active_standby", "balanced", "802.3ad", "broadcast"}

\* the VLAN interfaces stacked on one lower interface: name -> network types
VlanChoices ==
    {EmptyDict,
     [avlan |-> <<"mgmt">>], [cvlan |-> <<"mgmt">>], [cvlan |-> <<"infra">>],
     [cvlan |-> <<"data">>], [cvlan |-> <<"control">>],
     [avlan |-> <<"infra">>, cvlan |-> <<"mgmt">>]}

\* the names of S as a list, in name order
NameList(S) == SortedBy([n \in S |-> [iftype |-> "vlan", ifname |-> n]], S)

Vlans(vs, lower) ==
    [n \in DOMAIN vs |-> Iface(n, "vlan", vs[n], <<lower>>, <<>>, NoneVal)]

SingleTopologies ==
    {Vlans(vs, "eth0") @@
     ("eth0" :> Iface("eth0", "ethernet", t0, <<>>, NameList(DOMAIN vs), NoneVal)) :
        t0 \in EthTypes, vs \in VlanChoices}

\* the AE mode is varied on the bonds that carry no VLAN
BondChoices ==
    {<<vs, "active_standby">> : vs \in VlanChoices} \cup {<<EmptyDict, ae>> : ae \in AeModes}

BondTopology(tb, vs, ae) ==
     Vlans(vs, "bond0") @@
     ("eth0" :> Iface("eth0", "ethernet", <<>>, <<>>, <<"bond0">>, NoneVal)) @@
     ("eth1" :> Iface("eth1", "ethernet", <<>>, <<>>, <<"bond0">>, NoneVal)) @@
     ("bond0" :> Iface("bond0", "ae", tb, <<"eth0", "eth1">>, NameList(DOMAIN vs), ae))

BondTopologies == {BondTopology(tb, c[1], c[2]) : tb \in BondTypes, c \in BondChoices}

PairTopologies ==
    {("eth0" :> Iface("eth0", "ethernet", t0, <<>>, <<>>, NoneVal)) @@
     ("eth1" :> Iface("eth1", "ethernet", t1, <<>>, <<>>, NoneVal)) :
        t0 \in PairTypes, t1 \in PairTypes}

\* snapshots the API would refuse: two VLANs stacked on each other over a
\* management port, and a VLAN listed as the lower interface of its own port
CyclicVlanTypes == {<<>>, <<"mgmt">>, <<"data">>}

CyclicTopologies ==
    {("eth0" :> Iface("eth0", "ethernet", <<"oam">>, <<>>, <<>>, NoneVal)) @@
     ("avlan" :> Iface("avlan", "vlan", ta, <<"cvlan">>, <<"cvlan">>, NoneVal)) @@
     ("cvlan" :> Iface("cvlan", "vlan", tc, <<"avlan">>, <<"avlan">>, NoneVal)) :
        ta \in {<<>>, <<"data">>}, tc \in CyclicVlanTypes}
    \cup
    {("eth0" :> Iface("eth0", "ethernet", t0, <<>>, <<"cvlan">>, NoneVal)) @@
     ("cvlan" :> Iface("cvlan", "vlan", tc, <<"eth0">>, <<"eth0">>, NoneVal)) :
        t0 \in {<<>>, <<"oam">>}, tc \in CyclicVlanTypes}

\* the API admits one interface per host for each of these network types
SingletonTypes == {"mgmt", "pxeboot", "oam", "infra"}

WellFormed(ifs) ==
    /\ \A t \in SingletonTypes : Cardinality(find_interface_by_type(ifs, t)) <= 1
    /\ \A n \in DOMAIN ifs : ifs[n]["iftype"] = "ethernet" /\ ifs[n]["used_by"] = <<>>
                             => ifs[n]["networktype"] # <<>>

Topologies ==
    {t \in SingleTopologies \cup BondTopologies \cup PairTopologies : WellFormed(t)}

PortKinds ==
    {[driver |-> "igb", dpdksupport |-> TRUE], [driver |-> "igb", dpdksupport |-> FALSE],
     [driver |-> DRIVER_MLX_CX3, dpdksupport |-> TRUE],
     [driver |-> DRIVER_MLX_CX4, dpdksupport |-> TRUE]}

PciAddrs == {"0000:01:00.0", "0000:02:00.0"}

\* ports indexed by interface id; eth1's port is a CX3 port at pciaddr1
\* (the two ports of one CX3 adapter share a PCI address)
Ports(ifs, kind0, pciaddr1) ==
    [i \in {ifs[n]["id"] : n \in {m \in DOMAIN ifs : ifs[m]["iftype"] = "ethernet"}} |->
        IF i = NameIndex("eth0")
        THEN [name |-> "ens0", pciaddr |-> "0000:01:00.0", driver |-> kind0.driver,
              dpdksupport |-> kind0.dpdksupport, interface_id |-> i]
        ELSE [name |-> "ens1", pciaddr |-> pciaddr1, driver |-> DRIVER_MLX_CX3,
              dpdksupport |-> TRUE, interface_id |-> i]]

AddrLiteral(kind, n) ==
    IF kind = "v6" THEN (IF n = "eth0" THEN "fd00::2" ELSE IF n = "bond0" THEN "fd00::3"
                         ELSE "fd00::4")
    ELSE "10.0." \o ToString(NameIndex(n)) \o ".2"

\* one address for every interface with a platform network type, or none at all
Addresses(ifs, kind) ==
    IF kind = "none" THEN EmptyDict
    ELSE [n \in {m \in DOMAIN ifs : is_platform_network_type(ifs[m])} |->
            <<[ifname |-> n, family |-> IF kind = "v6" THEN 6 ELSE 4,
               prefix |-> IF kind = "v6" THEN 64 ELSE 24,
               address |-> AddrLiteral(kind, n),
               networktype |-> get_primary_network_type(ifs[n])]>>]

\* the routes the database may hold for the top-level interfaces
RouteUniverse(ifs) ==
    {[ifname |-> "eth0", network |-> "0.0.0.0", prefix |-> 0, gateway |-> "10.0.5.1",
      metric |-> 1],
     [ifname |-> "eth0", network |-> "10.10.0.0", prefix |-> 16, gateway |-> "10.0.5.1",
      metric |-> 1],
     [ifname |-> "eth0", network |-> "10.10.0.0", prefix |-> 16, gateway |-> "10.0.5.9",
      metric |-> 2]}
    \cup {[ifname |-> n, network |-> "0.0.0.0", prefix |-> 0, gateway |-> "10.0.4.1",
           metric |-> 1] : n \in (DOMAIN ifs) \cap {"cvlan", "eth1"}}

RouteLists(ifs) ==
    UNION {{r \in [1..k -> RouteUniverse(ifs)] : \A i, j \in 1..k : i # j => r[i] # r[j]} :
             k \in 0..MaxRoutes}

\* the port of eth0 is varied where some interface carries a data or PCI network type
PortChoices(ifs) ==
    IF \E n \in DOMAIN ifs :
          Range(ifs[n]["networktype"]) \cap (DATA_NETWORK_TYPES \cup PCI_NETWORK_TYPES) # {}
    THEN PortKinds
    ELSE {[driver |-> "igb", dpdksupport |-> TRUE]}

\* <<address kind, raw routes>>: with or without IPv4 addresses on every host;
\* IPv6 addresses and routes on the duplex controller with the compute subfunction
Secondary(ifs, hs) ==
    {<<"none", <<>>>>, <<"v4", <<>>>>}
    \cup (IF "compute" \in hs[1].subfunctions /\ hs[1].personality = "controller"
              /\ hs[2].system_mode = "duplex" /\ ~hs[3]
           THEN {<<"v6", <<>>>>} \cup {<<"v4", r>> : r \in RouteLists(ifs)}
           ELSE {})

Hosts ==
    {[hostname |-> "controller-0", personality |-> "controller",
      subfunctions |-> {"controller"}],
     [hostname |-> "controller-0", personality |-> "controller",
      subfunctions |-> {"controller", "compute"}],
     [hostname |-> "compute-0", personality |-> "compute", subfunctions |-> {"compute"}]}

Systems ==
    {[system_mode |-> "duplex", distributed_cloud_role |-> NoneVal],
     [system_mode |-> "simplex", distributed_cloud_role |-> NoneVal],
     [system_mode |-> "simplex", distributed_cloud_role |-> "subcloud"]}

\* a simplex system is a single controller with the compute subfunction
HostSystems ==
    {hs \in Hosts \X Systems \X BOOLEAN :
        /\ hs[2].system_mode = "simplex" => "compute" \in hs[1].subfunctions
                                            /\ hs[1].personality = "controller"
        /\ hs[3] => hs[2].system_mode = "duplex"}

Networks(bm) ==
    [t \in {"mgmt", "infra", "oam", "pxeboot"} \cup (IF bm THEN {"bm"} ELSE {}) |->
        [type |-> t, link_capacity |-> IF t = "mgmt" THEN 10000 ELSE 1000,
         mtu |-> 1500, vlan_id |-> IF t = "bm" THEN 30 ELSE NoneVal]]

FloatingIps(sys) ==
    [t \in {"mgmt", "pxeboot"} \cup (IF sys.system_mode # "simplex" THEN {"oam"} ELSE {}) |->
        IF t = "mgmt" THEN "192.168.204.2/24"
        ELSE IF t = "pxeboot" THEN "169.254.202.2/24"
        ELSE "10.10.10.2/24"]

Database(ifs, kind0, pciaddr1, addrkind, rawroutes, sys, bm) ==
    [interfaces |-> ifs,
     ports |-> Ports(ifs, kind0, pciaddr1),
     addresses |-> Addresses(ifs, addrkind),
     routes |-> rawroutes,
     networks |-> Networks(bm),
     gateways |-> [mgmt |-> "192.168.204.1"],
     floatingips |-> FloatingIps(sys),
     bm_address |-> [family |-> 4, prefix |-> 24, address |-> "10.0.2.2"]]

UUIDs == {"uuid-a", "uuid-b"}

-----------------------------------------------------------------------------
(* get_host_config, stage by stage *)

\* the state when get_host_config is entered for a host and a database snapshot
Start(ifs, hs, kind0, pciaddr1, sec) ==
    /\ host = hs[1]
    /\ system = hs[2]
    /\ db = Database(ifs, kind0, pciaddr1, sec[1], sec[2], hs[2], hs[3])
    /\ interfaces = EmptyDict
    /\ addresses = EmptyDict
    /\ routes = EmptyDict
    /\ config = EmptyConfig
    /\ emitted = <<>>
    /\ todo = <<>>
    /\ pc = "context"
    /\ error = NoErr
    /\ returned = <<>>
    /\ pass = 1
    /\ first = [returned |-> <<>>, error |-> NoErr]

Init ==
    \E ifs \in Topologies, hs \in HostSystems :
    \E kind0 \in PortChoices(ifs), sec \in Secondary(ifs, hs) :
    \E pciaddr1 \in (IF "eth1" \in DOMAIN ifs /\ "bond0" \notin DOMAIN ifs
                        /\ kind0.driver = DRIVER_MLX_CX3
                     THEN PciAddrs ELSE {"0000:02:00.0"}) :
        Start(ifs, hs, kind0, pciaddr1, sec)

\* a snapshot whose uses / used_by lists close a cycle
InitCyclic ==
    \E ifs \in CyclicTopologies, hs \in HostSystems, addrkind \in {"none", "v4"} :
    \E kind0 \in PortChoices(ifs) :
        Start(ifs, hs, kind0, "0000:02:00.0", <<addrkind, <<>>>>)

\* _create_interface_context: the indexes are built from the entity objects the
\* query layer hands out, either fresh ones or, on a second call, the objects the
\* first call already touched
CreateInterfaceContext ==
    /\ pc = "context"
    /\ \E reuse \in (IF pass = 2 THEN BOOLEAN ELSE {FALSE}) :
        /\ interfaces' = IF reuse
                         THEN [n \in DOMAIN db.interfaces |-> interfaces[n]]
                         ELSE db.interfaces
        /\ addresses' = IF reuse
                        THEN [n \in DOMAIN db.addresses |-> addresses[n]]
                        ELSE db.addresses
    /\ routes' = _get_routes_interface_name_index(db.routes)
    /\ pc' = "bmc"
    /\ UNCHANGED <<host, system, db, config, emitted, todo, error, returned, pass, first>>

\* get_host_config lines 80-94: the fake BMC interface on a controller
CreateBmcInterface ==
    /\ pc = "bmc"
    /\ IF is_controller(host) /\ "bm" \in DOMAIN db.networks
          /\ _find_bmc_lower_interface(interfaces) # {}
       THEN \E lower \in _find_bmc_lower_interface(interfaces), uuid \in UUIDs :
              LET r == _create_bmc_interface(interfaces, addresses, lower, uuid) IN
              /\ interfaces' = r.ifs
              /\ addresses' = r.addrs
       ELSE UNCHANGED <<interfaces, addresses>>
    /\ config' = EmptyConfig
    /\ pc' = "loopback"
    /\ UNCHANGED <<host, system, db, routes, emitted, todo, error, returned, pass, first>>

\* get_host_config lines 96-103, and the sorted() of generate_interface_configs
GenerateLoopbackConfig ==
    /\ pc = "loopback"
    /\ IF system.system_mode # "simplex" \/ system.distributed_cloud_role = "subcloud"
       THEN /\ config' = generate_loopback_config(config)
            /\ emitted' = Append(emitted, LOOPBACK_IFNAME)
       ELSE UNCHANGED <<config, emitted>>
    /\ todo' = SortedBy(interfaces, DOMAIN interfaces)
    /\ pc' = "interfaces"
    /\ UNCHANGED <<host, system, db, interfaces, addresses, routes, error, returned,
                   pass, first>>

\* one iteration of the loop of generate_interface_configs
GenerateInterfaceConfig ==
    /\ pc = "interfaces"
    /\ todo # <<>>
    /\ \E n \in {needs_interface_config(interfaces, Head(todo))} :
         IF n.err # NoErr
         THEN /\ interfaces' = n.ifs
              /\ error' = n.err
              /\ pc' = "failed"
              /\ UNCHANGED <<addresses, config, emitted, todo>>
         ELSE IF ~n.val
         THEN /\ interfaces' = n.ifs
              /\ todo' = Tail(todo)
              /\ pc' = IF Tail(todo) = <<>> THEN "addresses" ELSE "interfaces"
              /\ UNCHANGED <<addresses, config, emitted, error>>
         ELSE \E g \in {generate_network_config(n.ifs, addresses, routes, config,
                                                Head(todo))} :
              /\ interfaces' = g.ifs
              /\ addresses' = g.addrs
              /\ IF g.err # NoErr
                 THEN /\ error' = g.err
                      /\ pc' = "failed"
                      /\ UNCHANGED <<config, emitted, todo>>
                 ELSE /\ config' = g.config
                      /\ emitted' = emitted \o g.names
                      /\ todo' = Tail(todo)
                      /\ pc' = IF Tail(todo) = <<>> THEN "addresses" ELSE "interfaces"
                      /\ UNCHANGED error
    /\ UNCHANGED <<host, system, db, routes, returned, pass, first>>

GenerateAddressConfigs ==
    /\ pc = "addresses"
    /\ \E pick \in [{"mgmt", "pxeboot", "oam"} -> (DOMAIN interfaces) \cup {NoneVal}] :
        /\ \A t \in DOMAIN pick : pick[t] \in FindResults(interfaces, t)
        /\ \E r \in {generate_address_configs(interfaces, config[ADDRESS_CONFIG_RESOURCE],
                                              1, pick)} :
              /\ interfaces' = r.ifs
              /\ IF r.err # NoErr
                 THEN /\ error' = r.err
                      /\ pc' = "failed"
                      /\ UNCHANGED config
                 ELSE /\ config' = [config EXCEPT ![ADDRESS_CONFIG_RESOURCE] = r.val]
                      /\ pc' = "driver"
                      /\ UNCHANGED error
    /\ UNCHANGED <<host, system, db, addresses, routes, emitted, todo, returned, pass, first>>

GenerateDriverConfig ==
    /\ pc = "driver"
    /\ \E ifaces \in Orders(find_sriov_interfaces_by_driver(interfaces, DRIVER_MLX_CX3)) :
        config' = generate_driver_config(interfaces, config, ifaces)
    /\ pc' = "dhcp"
    /\ UNCHANGED <<host, system, db, interfaces, addresses, routes, emitted, todo, error,
                   returned, pass, first>>

\* generate_dhcp_config, then get_host_config returns the resource map
GenerateDhcpConfig ==
    /\ pc = "dhcp"
    /\ \E infra_interface \in FindResults(interfaces, "infra") :
        /\ config' = generate_dhcp_config(interfaces, config, infra_interface)
        /\ returned' = <<generate_dhcp_config(interfaces, config, infra_interface)>>
    /\ pc' = "done"
    /\ UNCHANGED <<host, system, db, interfaces, addresses, routes, emitted, todo, error,
                   pass, first>>

\* a second get_host_config call for the same host over the same snapshot
SecondCall ==
    /\ pc \in {"done", "failed"}
    /\ pass = 1
    /\ first' = [returned |-> returned, error |-> error]
    /\ pass' = 2
    /\ pc' = "context"
    /\ config' = EmptyConfig
    /\ emitted' = <<>>
    /\ todo' = <<>>
    /\ error' = NoErr
    /\ returned' = <<>>
    /\ UNCHANGED <<host, system, db, interfaces, addresses, routes>>

Next ==
    \/ CreateInterfaceContext
    \/ CreateBmcInterface
    \/ GenerateLoopbackConfig
    \/ GenerateInterfaceConfig
    \/ GenerateAddressConfigs
    \/ GenerateDriverConfig
    \/ GenerateDhcpConfig

Spec == Init /\ [][Next]_vars

NextTwoCalls == Next \/ SecondCall

SpecTwoCalls == Init /\ [][NextTwoCalls]_vars

SpecCyclic == InitCyclic /\ [][Next]_vars

-----------------------------------------------------------------------------
(* Properties *)

OsName(n) == get_interface_os_ifname(interfaces, n, 0).val

PortName(n) == db.ports[interfaces[n]["id"]]["name"]

NetworkConfig == config[NETWORK_CONFIG_RESOURCE]

RouteConfig == config[ROUTE_CONFIG_RESOURCE]

\* generate_interface_configs is about to visit interface n
Visiting(n) == pc = "interfaces" /\ todo # <<>> /\ Head(todo) = n

\* the value the contract gives needs_interface_config for interface n
C1_Claimed(n) ==
    IF is_platform_interface(interfaces, n, 0).val THEN TRUE
    ELSE IF ~is_compute_subfunction(host) THEN FALSE
    ELSE \/ is_data_interface(interfaces, n, 0).val /\ ~is_dpdk_compatible(interfaces, n).val
         \/ is_data_interface(interfaces, n, 0).val /\ is_a_mellanox_device(interfaces[n])
         \/ is_pci_interface(interfaces[n])

\* C1: needs_interface_config is true for a platform interface; otherwise false
\* on a host without the compute role; otherwise true exactly when the
\* interface is (data and not DPDK-compatible) or (data and Mellanox) or PCI --
\* so a PCI interface that is also data, DPDK-compatible and not Mellanox
\* needs configuration on a compute host.
C1_NeedsConfigContract ==
    pc # "context" =>
        \A n \in DOMAIN interfaces :
            needs_interface_config(interfaces, n).val = C1_Claimed(n)

NonDpdkDataEthernet(n) ==
    /\ interfaces[n]["iftype"] = "ethernet"
    /\ get_primary_network_type(interfaces[n]) = "data"
    /\ ~Get(db.ports[interfaces[n]["id"]], "dpdksupport", FALSE)

RouteName(route) ==
    IF route["prefix"] # 0 THEN route["network"] \o "/" \o ToString(route["prefix"])
    ELSE "default"

\* the visit of n writes its three network_config entries and its routes
C2_ThreeResources(n) ==
    /\ needs_interface_config(interfaces, n).val
    /\ pc' # "failed"
    /\ todo' = Tail(todo)
    /\ (DOMAIN NetworkConfig') \ (DOMAIN NetworkConfig)
         = {PortName(n), PortName(n) \o "-avp", "br-" \o PortName(n)}
    /\ Cardinality((DOMAIN NetworkConfig') \ (DOMAIN NetworkConfig)) = 3
    /\ \A k \in DOMAIN NetworkConfig : NetworkConfig'[k] = NetworkConfig[k]
    /\ \A i \in DOMAIN Get(routes, n, <<>>) :
          /\ RouteName(routes[n][i]) \in DOMAIN RouteConfig'
          /\ RouteConfig'[RouteName(routes[n][i])]["interface"] = PortName(n)

StaticWithoutAddress(n) ==
    /\ needs_interface_config(interfaces, n).val
    /\ get_interface_address_method(host, interfaces[n]) = "static"
    /\ Len(Get(addresses, n, <<>>)) = 0

\* C3: when an interface that needs configuration has address method static
\* and no primary address, a "control" interface is generated without
\* ipaddress, netmask or gateway; for any other network type the pass aborts
\* with a fatal error, and an aborted pass returns no resource map.
C3_MissingStaticAddress ==
    [][/\ \A n \in DOMAIN interfaces :
            Visiting(n) /\ StaticWithoutAddress(n) =>
                IF get_primary_network_type(interfaces[n]) = "control"
                THEN /\ pc' # "failed"
                     /\ error' = NoErr
                     /\ OsName(n) \in DOMAIN NetworkConfig'
                     /\ (DOMAIN NetworkConfig'[OsName(n)])
                           \cap {"ipaddress", "netmask", "gateway"} = {}
                ELSE /\ pc' = "failed"
                     /\ error' = "AssertionError"
                     /\ config' = config
       /\ pc' = "failed" => returned' = <<>>]_vars

\* C3 witness: a control interface without address was generated, then a
\* management interface without address aborted the pass
C3_Witness ==
    /\ pc = "failed"
    /\ error = "AssertionError"
    /\ returned = <<>>
    /\ todo # <<>>
    /\ get_primary_network_type(interfaces[Head(todo)]) = "mgmt"
    /\ \E n \in DOMAIN interfaces :
          /\ get_primary_network_type(interfaces[n]) = "control"
          /\ Len(Get(addresses, n, <<>>)) = 0
          /\ OsName(n) \in DOMAIN NetworkConfig
          /\ "ipaddress" \notin DOMAIN NetworkConfig[OsName(n)]

VlanOverBond(n) ==
    /\ interfaces[n]["iftype"] = "vlan"
    /\ interfaces[interfaces[n]["uses"][1]]["iftype"] = "ae"

\* C4 (as the code has it): the OS name of a VLAN interface whose lower
\* interface is a bond is <the bond's interface name>.<vlan id>.
C4_VlanOverBondUsesBondName ==
    pc # "context" =>
        \A n \in DOMAIN interfaces :
            VlanOverBond(n) =>
                OsName(n) = interfaces[interfaces[n]["uses"][1]]["ifname"] \o "."
                            \o ToString(interfaces[n]["vlan_id"])

\* C4 witness: the generation pass has named a VLAN over a bond
C4_Witness ==
    \E n \in DOMAIN interfaces :
        /\ VlanOverBond(n)
        /\ "_os_ifname" \in DOMAIN interfaces[n]
        /\ OsName(n) \in DOMAIN NetworkConfig

\* C4 as claimed: the OS name of a VLAN over a bond of ethernet interfaces is
\* <kernel device name of an underlying ethernet port>.<vlan id>
C4_VlanOverBondUsesPortName ==
    pc # "context" =>
        \A n \in DOMAIN interfaces :
            VlanOverBond(n) =>
                \E m \in Range(interfaces[interfaces[n]["uses"][1]]["uses"]) :
                    OsName(n) = PortName(m) \o "." \o ToString(interfaces[n]["vlan_id"])

\* C5: get_interface_os_ifname is the port's kernel device name for an
\* ethernet interface, the interface's own name for a bond, and for a VLAN the
\* OS name of its lower interface followed by "." and the VLAN id, through
\* any depth of stacking; a name cached on the interface is that same name.
C5_OsInterfaceName ==
    pc # "context" =>
        \A n \in DOMAIN interfaces :
            /\ get_interface_os_ifname(interfaces, n, 0).err = NoErr
            /\ OsName(n) =
                 IF interfaces[n]["iftype"] = "ethernet" THEN PortName(n)
                 ELSE IF interfaces[n]["iftype"] = "ae" THEN interfaces[n]["ifname"]
                 ELSE OsName(interfaces[n]["uses"][1]) \o "."
                      \o ToString(interfaces[n]["vlan_id"])

\* C5 witness: the BMC VLAN stacked on a VLAN over an ethernet port has been
\* named through both levels
C5_Witness ==
    /\ "bmc0" \in DOMAIN interfaces
    /\ interfaces["bmc0"]["uses"] = <<"cvlan">>
    /\ interfaces["cvlan"]["uses"] = <<"eth0">>
    /\ "_os_ifname" \in DOMAIN interfaces["bmc0"]
    /\ interfaces["bmc0"]["_os_ifname"] = "ens0.20.30"
    /\ "_os_ifname" \in DOMAIN interfaces["eth0"]

\* C6: two successive get_host_config calls for the same host over the same
\* unchanged snapshot return equal resource maps, whether or not the second
\* call reuses the entity records the first one touched, and whatever order
\* the interface index is iterated in.
C6_SecondCallReturnsSameMap ==
    pass = 2 /\ pc = "done" /\ first.returned # <<>> => returned = first.returned

\* C7: once the interface index is built, and after bmc0 is injected, used_by
\* is the transpose of uses: b is in a's used_by exactly when a is in b's uses.
C7_UsedByIsTransposeOfUses ==
    pc # "context" =>
        \A a, b \in DOMAIN interfaces :
            (b \in Range(interfaces[a]["used_by"])) <=> (a \in Range(interfaces[b]["uses"]))

\* a is directly below b by either edge list
Edge(ifs, a, b) == b \in Range(ifs[a]["used_by"]) \/ a \in Range(ifs[b]["uses"])

RECURSIVE Above(_, _, _)
\* the interfaces reached from the set S in at most k further edges
Above(ifs, S, k) ==
    IF k = 0 THEN S
    ELSE Above(ifs, S \cup {b \in DOMAIN ifs : \E a \in S : Edge(ifs, a, b)}, k - 1)

HasCycle(ifs) ==
    \E a \in DOMAIN ifs :
        a \in Above(ifs, {b \in DOMAIN ifs : Edge(ifs, a, b)}, Cardinality(DOMAIN ifs))

\* C8: when the uses / used_by edges of the snapshot contain a cycle, the pass
\* stops while the interface index is built, with an input-validation error:
\* it gets no further, evaluates no classifier (no cached fact appears on an
\* interface) and never runs into the recursion limit.
C8_CycleRejectedAtIndexBuild ==
    HasCycle(db.interfaces) =>
        \/ pc = "context"
        \/ /\ pc = "failed"
           /\ error = "InputValidationError"
           /\ \A n \in DOMAIN interfaces : interfaces[n] = db.interfaces[n]

\* C9: a pass never changes its input entities: every interface and address
\* record of the index equals, field for field, the record the database
\* handed out.
C9_EntitiesUnchanged ==
    pc # "context" =>
        /\ \A n \in DOMAIN db.interfaces : interfaces[n] = db.interfaces[n]
        /\ \A n \in DOMAIN db.addresses : addresses[n] = db.addresses[n]

TypeRank(n) ==
    IF interfaces[n]["iftype"] = "ethernet" THEN 0
    ELSE IF interfaces[n]["iftype"] = "ae" THEN 1
    ELSE 2

\* ethernet, then bond, then VLAN, by name within a type
VisitedBefore(a, b) ==
    \/ TypeRank(a) < TypeRank(b)
    \/ TypeRank(a) = TypeRank(b) /\ NameIndex(a) < NameIndex(b)

\* the resource of interface a was written before the resource of interface b
EmittedBefore(a, b) ==
    \E i, j \in DOMAIN emitted : i < j /\ emitted[i] = OsName(a) /\ emitted[j] = OsName(b)

VisitOrder ==
    pc = "interfaces" =>
        /\ \A i, j \in DOMAIN todo : i < j => VisitedBefore(todo[i], todo[j])
        /\ \A a \in (DOMAIN interfaces) \ Range(todo), b \in Range(todo) : VisitedBefore(a, b)

\* C10 (as the code has it): interfaces are visited in the order ethernet,
\* bond, VLAN, by name within each type; hence for every pair of interfaces of
\* different types where the lower one needs configuration and is in the uses
\* list of the upper one, the lower resource is emitted before the upper one.
C10_LowerTypeBeforeUpperType ==
    /\ VisitOrder
    /\ \A a, b \in DOMAIN interfaces :
          /\ a \in Range(interfaces[b]["uses"])
          /\ interfaces[a]["iftype"] # interfaces[b]["iftype"]
          /\ needs_interface_config(interfaces, a).val
          /\ OsName(b) \in Range(emitted)
          => EmittedBefore(a, b)

\* C10 witness: an ethernet member, its bond and a VLAN over the bond were
\* emitted in that order
C10_Witness ==
    \E v \in DOMAIN interfaces :
        /\ VlanOverBond(v)
        /\ EmittedBefore(interfaces[v]["uses"][1], v)
        /\ EmittedBefore("eth0", interfaces[v]["uses"][1])

\* C10 as claimed: the same for every pair, a VLAN stacked on a VLAN included
C10_LowerBeforeUpper ==
    /\ VisitOrder
    /\ \A a, b \in DOMAIN interfaces :
          /\ a \in Range(interfaces[b]["uses"])
          /\ needs_interface_config(interfaces, a).val
          /\ OsName(b) \in Range(emitted)
          => EmittedBefore(a, b)

\* position of a stage of get_host_config in the order the code runs them
StageRank(p) ==
    IF p = "context" THEN 0 ELSE IF p = "bmc" THEN 1 ELSE IF p = "loopback" THEN 2
    ELSE IF p = "interfaces" THEN 3 ELSE IF p = "addresses" THEN 4
    ELSE IF p = "driver" THEN 5 ELSE IF p = "dhcp" THEN 6 ELSE 7

LoopbackWanted ==
    system.system_mode # "simplex" \/ system.distributed_cloud_role = "subcloud"

\* C11: the stages run in the order loopback, per-interface resources,
\* floating-address resources, driver hooks, DHCP client identifier (a stage
\* is followed by itself, by the next stage, or by the abort of the pass);
\* once the loopback stage is over, "lo" is in the network_config family
\* exactly when the system is not simplex or is a simplex subcloud, and when
\* present it is the first resource written.
C11_StageOrderAndLoopback ==
    [][/\ \/ pc' = "failed"
          \/ pc' = pc /\ pc = "interfaces"
          \/ StageRank(pc') = StageRank(pc) + 1
       /\ StageRank(pc') >= 3 /\ pc' # "failed" =>
            /\ (LOOPBACK_IFNAME \in DOMAIN NetworkConfig') <=> LoopbackWanted
            /\ LoopbackWanted => emitted'[1] = LOOPBACK_IFNAME
            /\ \A i \in DOMAIN emitted' : i > 1 => emitted'[i] # LOOPBACK_IFNAME]_vars

\* C11 witness: a simplex subcloud finished all stages, with lo written
\* first and interface resources after it
C11_Witness ==
    /\ pc = "done"
    /\ system.system_mode = "simplex"
    /\ system.distributed_cloud_role = "subcloud"
    /\ LOOPBACK_IFNAME \in DOMAIN NetworkConfig
    /\ Len(emitted) > 1
    /\ emitted[1] = LOOPBACK_IFNAME
    /\ DOMAIN config[ADDRESS_CONFIG_RESOURCE] # {}

\* the last k names written to the resource families
LastEmitted(e, k) == SubSeq(e, Len(e) - k + 1, Len(e))

\* C12: for every interface the route list indexed under its name is sorted
\* by prefix length in descending order, and a visit that generates the
\* interface emits its route resources in that order, as the last names
\* written by the visit.
C12_RoutesByDescendingPrefix ==
    [][/\ \A n \in DOMAIN routes' :
            \A i, j \in DOMAIN routes'[n] :
                i < j => routes'[n][i]["prefix"] >= routes'[n][j]["prefix"]
       /\ \A n \in DOMAIN routes :
            Visiting(n) /\ emitted' # emitted =>
                LastEmitted(emitted', Len(routes[n]))
                    = [k \in 1..Len(routes[n]) |-> RouteName(routes[n][k])]]_vars

\* C12 witness: the database listed the default route of eth0 before its /16
\* route, the index holds them the other way round, and they were emitted so
C12_Witness ==
    /\ Len(db.routes) = 2
    /\ db.routes[1]["ifname"] = "eth0" /\ db.routes[1]["prefix"] = 0
    /\ db.routes[2]["ifname"] = "eth0" /\ db.routes[2]["prefix"] = 16
    /\ pc = "addresses"
    /\ routes["eth0"][1]["prefix"] = 16
    /\ Len(emitted) >= 2
    /\ LastEmitted(emitted, 2) = <<"10.10.0.0/16", "default">>

\* dotted netmask of an IPv4 prefix length, by table
DottedMask(prefix) ==
    IF prefix = 8 THEN "255.0.0.0" ELSE IF prefix = 16 THEN "255.255.0.0"
    ELSE IF prefix = 24 THEN "255.255.255.0" ELSE IF prefix = 32 THEN "255.255.255.255"
    ELSE "0.0.0.0"

\* res is the route resource the claim describes for route r
RouteResourceOf(res, r) ==
    /\ res["gateway"] = r["gateway"]
    /\ res["interface"] = OsName(r["ifname"])
    /\ res["options"] = "metric " \o ToString(r["metric"])
    /\ IF r["prefix"] = 0
       THEN res["name"] = "default" /\ res["netmask"] = "0.0.0.0"
       ELSE /\ res["name"] = r["network"] \o "/" \o ToString(r["prefix"])
            /\ res["netmask"] = DottedMask(r["prefix"])

\* C13: every route resource is keyed by its name and is the resource of a
\* route of the host: named "default" with netmask 0.0.0.0 when the prefix
\* length is zero, named <network>/<prefix> with the netmask of the prefix
\* otherwise, and carrying the route's gateway, the OS name of the owning
\* interface and the option string "metric <metric>"; and get_route_config
\* builds such a resource for every indexed route.
C13_RouteResource ==
    /\ \A k \in DOMAIN RouteConfig :
          /\ RouteConfig[k]["name"] = k
          /\ \E i \in DOMAIN db.routes : RouteResourceOf(RouteConfig[k], db.routes[i])
    /\ \A n \in DOMAIN routes :
          \A i \in DOMAIN routes[n] :
              RouteResourceOf(get_route_config(routes[n][i], OsName(n)), routes[n][i])

\* C13 witness: a default route and a /16 route of eth0 have been written
C13_Witness ==
    /\ {"default", "10.10.0.0/16"} \subseteq DOMAIN RouteConfig
    /\ RouteConfig["default"]["netmask"] = "0.0.0.0"
    /\ RouteConfig["default"]["interface"] = "ens0"
    /\ RouteConfig["10.10.0.0/16"]["netmask"] = "255.255.0.0"
    /\ RouteConfig["10.10.0.0/16"]["options"] = "metric 1"

AddressConfig == config[ADDRESS_CONFIG_RESOURCE]

\* the address resource of floating IP t is attached to an interface of type u
AttachedTo(t, u) ==
    /\ t \in DOMAIN AddressConfig
    /\ \E n \in find_interface_by_type(interfaces, u) :
          AddressConfig[t] = [ifname |-> OsName(n), address |-> db.floatingips[t]]

\* C14: once generate_address_configs is over, for each floating IP indexed
\* by network type: if an interface with that primary network type exists the
\* family maps the type to that interface's OS name and the address; if none
\* exists and the type is pxeboot, the resource is attached to the management
\* interface when there is one; otherwise the family has no resource for the
\* type.  The family holds nothing else, and the stage raises no error (a
\* pass only aborts inside the interface loop).
C14_FloatingAddressResources ==
    /\ pc = "failed" => todo # <<>>
    /\ pc \in {"driver", "dhcp", "done"} =>
          /\ DOMAIN AddressConfig \subseteq DOMAIN db.floatingips
          /\ \A t \in DOMAIN db.floatingips :
                IF find_interface_by_type(interfaces, t) # {} THEN AttachedTo(t, t)
                ELSE IF t = "pxeboot" /\ find_interface_by_type(interfaces, "mgmt") # {}
                     THEN AttachedTo(t, "mgmt")
                ELSE t \notin DOMAIN AddressConfig

\* C14 witness: without a pxeboot interface the pxeboot address went to the
\* management VLAN, and the OAM address, without OAM interface, nowhere
C14_Witness ==
    /\ pc = "done"
    /\ find_interface_by_type(interfaces, "pxeboot") = {}
    /\ find_interface_by_type(interfaces, "mgmt") = {"cvlan"}
    /\ "oam" \in DOMAIN db.floatingips
    /\ DOMAIN AddressConfig = {"mgmt", "pxeboot"}
    /\ AddressConfig["pxeboot"]["ifname"] = OsName("cvlan")
    /\ AddressConfig["mgmt"]["address"] = "192.168.204.2/24"

\* the address method the rules give for a primary network type, on a
\* controller or elsewhere
MethodByRule(networktype, on_controller) ==
    IF networktype \in {NoneVal, "data", "pci-sriov", "pci-passthrough"} THEN "manual"
    ELSE IF networktype \in {"control", "data-vrs", "bm"} THEN "static"
    ELSE IF on_controller THEN "static"
    ELSE IF networktype = "pxeboot" THEN "manual"
    ELSE "dhcp"

\* C15: the address method of every interface is the one the rules give for
\* its primary network type and for whether the host is a controller (none:
\* manual; data: manual; control, data-vrs, bm: static; pci-sriov and
\* pci-passthrough: manual; else static on a controller; else manual for
\* pxeboot; else dhcp), and it is the method of the interface's resource.
C15_AddressMethod ==
    \A n \in DOMAIN interfaces :
        /\ get_interface_address_method(host, interfaces[n])
             = MethodByRule(get_primary_network_type(interfaces[n]),
                            host["personality"] = "controller")
        /\ "_os_ifname" \in DOMAIN interfaces[n] /\ OsName(n) \in DOMAIN NetworkConfig
             => NetworkConfig[OsName(n)]["method"]
                  = MethodByRule(get_primary_network_type(interfaces[n]),
                                 host["personality"] = "controller")

\* C15 witness: on a compute host the pxeboot port was generated as manual
\* and the management VLAN over it as dhcp
C15_Witness ==
    /\ host["personality"] = "compute"
    /\ pc = "done"
    /\ get_primary_network_type(interfaces["eth0"]) = "pxeboot"
    /\ NetworkConfig["ens0"]["method"] = "manual"
    /\ "ens0.20" \in DOMAIN NetworkConfig
    /\ get_primary_network_type(interfaces["cvlan"]) = "mgmt"
    /\ NetworkConfig["ens0.20"]["method"] = "dhcp"

RECURSIVE UppersOf(_, _, _)
\* the interfaces reached from the set S by following used_by at most k more times
UppersOf(ifs, S, k) ==
    IF k = 0 THEN S
    ELSE UppersOf(ifs, S \cup {b \in DOMAIN ifs : \E a \in S : b \in Range(ifs[a]["used_by"])},
                  k - 1)

\* the interfaces reachable from n through one or more used_by edges
StackedAbove(n) ==
    UppersOf(interfaces, {b \in DOMAIN interfaces : b \in Range(interfaces[n]["used_by"])},
             Cardinality(DOMAIN interfaces))

PlatformTyped(n) ==
    get_primary_network_type(interfaces[n])
        \in {"pxeboot", "mgmt", "infra", "oam", "data-vrs", "bm", "control"}

\* C16: is_platform_interface is true exactly when the interface's primary
\* network type is one of pxeboot, mgmt, infra, oam, data-vrs, bm, control, or
\* some interface reachable from it through one or more used_by edges has
\* such a primary type; a result cached on the interface is that same value.
C16_PlatformInterface ==
    pc # "context" =>
        \A n \in DOMAIN interfaces :
            is_platform_interface(interfaces, n, 0).val
                = (PlatformTyped(n) \/ \E m \in StackedAbove(n) : PlatformTyped(m))

\* C16 witness: a bond member without network type was classified as a
\* platform interface through its untyped bond and the management VLAN on it
C16_Witness ==
    /\ "bond0" \in DOMAIN interfaces
    /\ interfaces["eth0"]["networktype"] = <<>>
    /\ interfaces["bond0"]["networktype"] = <<>>
    /\ "_kernel" \in DOMAIN interfaces["eth0"]
    /\ interfaces["eth0"]["_kernel"]
    /\ \E v \in StackedAbove("bond0") : get_primary_network_type(interfaces[v]) = "mgmt"

DataTyped(n) == get_primary_network_type(interfaces[n]) = "data"

\* C17: is_data_interface is true exactly when the interface's primary
\* network type is data or some interface reachable from it through used_by
\* edges has primary network type data; an interface that only lists data as
\* an auxiliary network type, with no data interface above it, is not a data
\* interface.
C17_DataInterface ==
    pc # "context" =>
        \A n \in DOMAIN interfaces :
            is_data_interface(interfaces, n, 0).val
                = (DataTyped(n) \/ \E m \in StackedAbove(n) : DataTyped(m))

VfPath(n) == "/sys/class/net/" \o PortName(n) \o "/device/sriov_numvfs"

IsBridged(n) == is_bridged_interface(interfaces, n).val

BondsAbove(n) ==
    {b \in Range(interfaces[n]["used_by"]) : interfaces[b]["iftype"] = "ae"}

OnCx3Port(n) == db.ports[interfaces[n]["id"]]["driver"] = "mlx4_core"

\* the options an ethernet interface takes on top of the link delay, by the
\* first condition that holds
EthernetAugmentation(n, bond) ==
    IF IsBridged(n) THEN [BRIDGE |-> "br-" \o PortName(n)]
    ELSE IF BondsAbove(n) # {}
         THEN [SLAVE |-> "yes", PROMISC |-> "yes", MASTER |-> bond]
    ELSE IF get_primary_network_type(interfaces[n]) = "pci-sriov" /\ ~OnCx3Port(n)
         THEN [pre_up |-> "echo 0 > " \o VfPath(n) \o "; echo "
                          \o ToString(interfaces[n]["sriov_numvfs"]) \o " > " \o VfPath(n)]
    ELSE IF get_primary_network_type(interfaces[n]) = "pci-passthrough"
         THEN [pre_up |-> "if [ -f  " \o VfPath(n) \o " ]; then echo 0 > "
                          \o VfPath(n) \o "; fi"]
    ELSE EmptyDict

\* the resources generated for the ethernet interface n: its own and the -avp clone
EthernetResources(n) ==
    {PortName(n), PortName(n) \o "-avp"} \cap DOMAIN NetworkConfig

\* C18: every ethernet interface resource carries LINKDELAY and, besides the
\* common options, exactly the augmentation of the first condition that
\* holds: bridged gives BRIDGE only; else slave gives SLAVE, PROMISC and
\* MASTER = the bond's name; else pci-sriov off a CX3 port gives the script
\* that resets and re-requests the VF count; else pci-passthrough gives the
\* script that resets the VF count if the file exists. No resource carries
\* BRIDGE with MASTER, or a VF script with BRIDGE or MASTER.
C18_EthernetOptions ==
    /\ \A n \in {m \in DOMAIN interfaces : interfaces[m]["iftype"] = "ethernet"} :
        \A r \in EthernetResources(n) :
            /\ NetworkConfig[r]["options"]["LINKDELAY"] = "20"
            /\ \E bond \in (IF BondsAbove(n) = {} THEN {NoneVal} ELSE BondsAbove(n)) :
                  Del(Del(NetworkConfig[r]["options"], "post_up"), "LINKDELAY")
                      = EthernetAugmentation(n, bond)
    /\ \A r \in DOMAIN NetworkConfig :
        /\ ~({"BRIDGE", "MASTER"} \subseteq DOMAIN NetworkConfig[r]["options"])
        /\ "pre_up" \in DOMAIN NetworkConfig[r]["options"]
              => {"BRIDGE", "MASTER"} \cap DOMAIN NetworkConfig[r]["options"] = {}

\* C18 witness: a bridged data port carries BRIDGE while an SR-IOV interface on
\* a CX3 port carries no VF script
C18_Witness ==
    /\ pc = "done"
    /\ {"ens0", "ens0-avp", "ens1"} \subseteq DOMAIN NetworkConfig
    /\ NetworkConfig["ens0-avp"]["options"] = [LINKDELAY |-> "20", BRIDGE |-> "br-ens0"]
    /\ get_primary_network_type(interfaces["eth1"]) = "pci-sriov"
    /\ NetworkConfig["ens1"]["options"] = [LINKDELAY |-> "20"]

\* the bonding options the mode table gives for an AE mode, "" where it gives none
ModeString(ae_mode, policy) ==
    IF ae_mode \in {"active_backup", "active-backup", "active_standby"}
    THEN "mode=active-backup miimon=100"
    ELSE IF ae_mode \in {"balanced", "balanced-xor"}
    THEN "mode=balance-xor xmit_hash_policy=" \o policy \o " miimon=100"
    ELSE IF ae_mode = "802.3ad"
    THEN "mode=802.3ad lacp_rate=fast xmit_hash_policy=" \o policy \o " miimon=100"
    ELSE ""

BondResources ==
    {n \in DOMAIN interfaces : interfaces[n]["iftype"] = "ae" /\ n \in DOMAIN NetworkConfig}

\* the three rows of the mode table, on the bonds whose AE mode is in the table
BondModeTable ==
    \A n \in BondResources :
        ModeString(interfaces[n]["aemode"], interfaces[n]["txhashpolicy"]) # "" =>
            /\ {"BONDING_OPTS", "up"} \subseteq DOMAIN NetworkConfig[n]["options"]
            /\ NetworkConfig[n]["options"]["BONDING_OPTS"]
                 = ModeString(interfaces[n]["aemode"], interfaces[n]["txhashpolicy"])
            /\ NetworkConfig[n]["options"]["up"] = "sleep 10"

\* C19: a bond's BONDING_OPTS is the string the mode table gives for its AE
\* mode (active-backup, balance-xor with the hash policy, 802.3ad with fast
\* LACP and the hash policy), `up: sleep 10` is present exactly when such a
\* string is produced, and a bond with any other AE mode carries neither
\* BONDING_OPTS nor the boot delay.
C19_BondingOptions ==
    /\ BondModeTable
    /\ \A n \in BondResources :
        ModeString(interfaces[n]["aemode"], interfaces[n]["txhashpolicy"]) = "" =>
            {"BONDING_OPTS", "up"} \cap DOMAIN NetworkConfig[n]["options"] = {}

Mlx4Key == "platform::networking::mlx4_core_options"

\* the ethernet interfaces with primary type pci-sriov on a CX3 port
Cx3SriovInterfaces ==
    {n \in DOMAIN interfaces :
        /\ interfaces[n]["iftype"] = "ethernet"
        /\ get_primary_network_type(interfaces[n]) = "pci-sriov"
        /\ OnCx3Port(n)}

PciAddrOf(n) == db.ports[interfaces[n]["id"]]["pciaddr"]

ComputeCapable == host["personality"] = "compute" \/ "compute" \in host["subfunctions"]

RECURSIVE JoinedEntries(_, _, _)
\* the entries of the PCI addresses o[k..], each with the VF count of the interface by[o[k]]
JoinedEntries(o, by, k) ==
    IF k > Len(o) THEN ""
    ELSE (IF k > 1 THEN "," ELSE "") \o o[k] \o "-"
         \o ToString(interfaces[by[o[k]]]["sriov_numvfs"]) \o ";0;0"
         \o JoinedEntries(o, by, k + 1)

\* C20: after the driver stage the mlx4_core option is present exactly when
\* the host has the compute function and some ethernet interface with primary
\* type pci-sriov sits on a CX3 port; its value is port_type_array=2,2
\* num_vfs= followed by the comma-joined entries <PCI address>-<VF count>;0;0,
\* exactly one per distinct PCI address of those interfaces, carrying the VF
\* count of an interface at that address. Before the driver stage it is absent.
C20_Mlx4CoreOptions ==
    IF pc \in {"dhcp", "done"}
    THEN /\ Mlx4Key \in DOMAIN config <=> ComputeCapable /\ Cx3SriovInterfaces # {}
         /\ Mlx4Key \in DOMAIN config =>
              \E o \in Orders({PciAddrOf(n) : n \in Cx3SriovInterfaces}) :
              \E by \in [{PciAddrOf(n) : n \in Cx3SriovInterfaces} -> Cx3SriovInterfaces] :
                  /\ \A a \in DOMAIN by : PciAddrOf(by[a]) = a
                  /\ config[Mlx4Key]
                       = "port_type_array=2,2 num_vfs=" \o JoinedEntries(o, by, 1)
    ELSE Mlx4Key \notin DOMAIN config

\* C20 witness: two SR-IOV interfaces on CX3 ports that share one PCI address
\* gave a single entry
C20_Witness ==
    /\ pc = "done"
    /\ Cx3SriovInterfaces = {"eth0", "eth1"}
    /\ PciAddrOf("eth0") = PciAddrOf("eth1")
    /\ Mlx4Key \in DOMAIN config
    /\ config[Mlx4Key] \in {"port_type_array=2,2 num_vfs=0000:01:00.0-4;0;0",
                            "port_type_array=2,2 num_vfs=0000:01:00.0-2;0;0"}

\* the interfaces bmc0 may be put on: the pxeboot-typed ones, else the mgmt-typed ones
BmcLowerCandidates ==
    IF \E n \in DOMAIN interfaces : get_primary_network_type(interfaces[n]) = "pxeboot"
    THEN {n \in DOMAIN interfaces : get_primary_network_type(interfaces[n]) = "pxeboot"}
    ELSE {n \in DOMAIN interfaces : get_primary_network_type(interfaces[n]) = "mgmt"}

\* the injection step added bmc0, a VLAN over one of the candidates, with one address
BmcAdded ==
    /\ DOMAIN interfaces' = DOMAIN interfaces \cup {"bmc0"}
    /\ interfaces'["bmc0"]["ifname"] = "bmc0"
    /\ interfaces'["bmc0"]["iftype"] = "vlan"
    /\ Len(interfaces'["bmc0"]["uses"]) = 1
    /\ interfaces'["bmc0"]["uses"][1] \in BmcLowerCandidates
    /\ DOMAIN addresses' = DOMAIN addresses \cup {"bmc0"}
    /\ Len(addresses'["bmc0"]) = 1
    /\ addresses'["bmc0"][1]["ifname"] = "bmc0"
    /\ addresses'["bmc0"][1]["address"] = db.bm_address["address"]
    /\ \A n \in DOMAIN addresses : addresses'[n] = addresses[n]

BmcSkipped ==
    /\ interfaces' = interfaces
    /\ addresses' = addresses
    /\ error' = NoErr
    /\ pc' = "loopback"

BridgeReferencesResolved ==
    pc = "done" =>
        \A r \in DOMAIN NetworkConfig :
            "BRIDGE" \in DOMAIN NetworkConfig[r]["options"]
                => NetworkConfig[r]["options"]["BRIDGE"] \in DOMAIN NetworkConfig

\* C22: in the final resource map every resource whose options carry
\* MASTER=<name> or BRIDGE=<name> is accompanied by a network_config resource
\* named <name>; a bond member emitted as a slave never references a bond
\* that has no resource.
C22_ReferentialIntegrity ==
    /\ BridgeReferencesResolved
    /\ pc = "done" =>
        \A r \in DOMAIN NetworkConfig :
            "MASTER" \in DOMAIN NetworkConfig[r]["options"]
                => NetworkConfig[r]["options"]["MASTER"] \in DOMAIN NetworkConfig

\* the final route_config family holds a resource for the route r of interface n
RouteKept(n, r) ==
    \E k \in DOMAIN RouteConfig :
        /\ RouteConfig[k]["interface"] = OsName(n)
        /\ RouteConfig[k]["gateway"] = r["gateway"]
        /\ RouteConfig[k]["options"] = "metric " \o ToString(r["metric"])

\* the routes of one interface never displace each other in the final map
RoutesOfDistinctDestinationsKept ==
    pc = "done" =>
        \A n \in DOMAIN interfaces :
            needs_interface_config(interfaces, n).val /\ n \in DOMAIN routes =>
                \A i \in DOMAIN routes[n] :
                    (\A m \in DOMAIN routes : \A j \in DOMAIN routes[m] :
                        RouteName(routes[m][j]) = RouteName(routes[n][i])
                            => m = n /\ j = i)
                        => RouteKept(n, routes[n][i])

\* C23: in the final map, for every interface that needs configuration and
\* every route in its route list, the route_config family holds a resource
\* whose interface is that interface's OS name and whose gateway and metric
\* are that route's, also when two configured interfaces each have a route to
\* the same destination and prefix.
C23_NoRouteLost ==
    pc = "done" =>
        \A n \in DOMAIN interfaces :
            needs_interface_config(interfaces, n).val /\ n \in DOMAIN routes =>
                \A i \in DOMAIN routes[n] : RouteKept(n, routes[n][i])

\* what each classifier returns on the current topology when nothing is memoized
PlatformFact(n) == PlatformTyped(n) \/ \E m \in StackedAbove(n) : PlatformTyped(m)

DataFact(n) ==
    \E m \in StackedAbove(n) \cup {n} : "data" \in Range(interfaces[m]["networktype"])

DpdkFact(n) ==
    IF interfaces[n]["iftype"] = "ethernet"
    THEN db.ports[interfaces[n]["id"]]["dpdksupport"]
    ELSE TRUE

SlaveFact(n) == interfaces[n]["iftype"] = "ethernet" /\ BondsAbove(n) # {}

MasterFact(n) ==
    IF SlaveFact(n)
    THEN interfaces[n]["used_by"][CHOOSE k \in DOMAIN interfaces[n]["used_by"] :
            /\ interfaces[n]["used_by"][k] \in BondsAbove(n)
            /\ \A j \in 1..(k - 1) : interfaces[n]["used_by"][j] \notin BondsAbove(n)]
    ELSE NoneVal

RECURSIVE OsNameFact(_)
OsNameFact(n) ==
    IF interfaces[n]["iftype"] = "ethernet" THEN PortName(n)
    ELSE IF interfaces[n]["iftype"] = "vlan"
    THEN OsNameFact(interfaces[n]["uses"][1]) \o "." \o ToString(interfaces[n]["vlan_id"])
    ELSE interfaces[n]["ifname"]

BridgeFact(n) ==
    IF interfaces[n]["iftype"] = "ethernet" /\ DataFact(n) /\ ~DpdkFact(n)
    THEN "br-" \o OsNameFact(n)
    ELSE NoneVal

Memoized(n, key) == key \in DOMAIN interfaces[n]

\* C24: after the BMC injection, every memoized fact stored on an interface
\* (_kernel, _data, _dpdksupport, _master, _slave, _os_ifname, _bridge,
\* _bridged) equals what the same predicate returns on the current topology
\* without any memoized value, in every order the pass first calls them.
C24_CacheCoherence ==
    pc \notin {"context", "bmc"} =>
        \A n \in DOMAIN interfaces :
            /\ Memoized(n, "_kernel") => interfaces[n]["_kernel"] = PlatformFact(n)
            /\ Memoized(n, "_data") => interfaces[n]["_data"] = DataFact(n)
            /\ Memoized(n, "_dpdksupport") => interfaces[n]["_dpdksupport"] = DpdkFact(n)
            /\ Memoized(n, "_master") => interfaces[n]["_master"] = MasterFact(n)
            /\ Memoized(n, "_slave") => interfaces[n]["_slave"] = SlaveFact(n)
            /\ Memoized(n, "_os_ifname") => interfaces[n]["_os_ifname"] = OsNameFact(n)
            /\ Memoized(n, "_bridge") => interfaces[n]["_bridge"] = BridgeFact(n)
            /\ Memoized(n, "_bridged") => interfaces[n]["_bridged"] = (BridgeFact(n) # NoneVal)

\* C24 witness: after a BMC injection over the pxeboot port, the bond-free
\* port, its VLAN and bmc0 all carry memoized facts
C24_Witness ==
    /\ pc = "done"
    /\ "bmc0" \in DOMAIN interfaces
    /\ Memoized("bmc0", "_os_ifname")
    /\ Memoized(interfaces["bmc0"]["uses"][1], "_kernel")
    /\ \E n \in DOMAIN interfaces :
          n \in Range(db.interfaces[interfaces["bmc0"]["uses"][1]]["used_by"])
          /\ Memoized(n, "_kernel")

NeedsConfig(n) == needs_interface_config(interfaces, n).val

\* C25: whenever needs_interface_config is true for an interface it is true
\* for every interface in its uses list, and in the final map every emitted
\* VLAN or bond resource has a resource for each interface it uses.
C25_DownwardClosure ==
    /\ \A n \in DOMAIN interfaces :
          NeedsConfig(n) => \A k \in DOMAIN interfaces[n]["uses"] :
                               NeedsConfig(interfaces[n]["uses"][k])
    /\ pc = "done" =>
          \A n \in DOMAIN interfaces :
              interfaces[n]["iftype"] \in {"vlan", "ae"} /\ OsName(n) \in DOMAIN NetworkConfig
                  => \A k \in DOMAIN interfaces[n]["uses"] :
                        OsName(interfaces[n]["uses"][k]) \in DOMAIN NetworkConfig

\* C25 witness: a management VLAN over an untyped bond over untyped ports, all emitted
C25_Witness ==
    /\ pc = "done"
    /\ "bond0" \in DOMAIN interfaces
    /\ interfaces["bond0"]["networktype"] = <<>>
    /\ \E v \in DOMAIN interfaces :
          /\ interfaces[v]["iftype"] = "vlan"
          /\ interfaces[v]["uses"] = <<"bond0">>
          /\ NeedsConfig(v)
          /\ OsName(v) \in DOMAIN NetworkConfig
    /\ {"bond0", "ens0", "ens1"} \subseteq DOMAIN NetworkConfig

\* the ethernet interfaces with primary type pci-sriov that are neither bridged nor slaves
PlainSriovInterfaces ==
    {n \in DOMAIN interfaces :
        /\ interfaces[n]["iftype"] = "ethernet"
        /\ get_primary_network_type(interfaces[n]) = "pci-sriov"
        /\ ~IsBridged(n)
        /\ BondsAbove(n) = {}}

InMlx4Options(n) == Mlx4Key \in DOMAIN config /\ Contains(config[Mlx4Key], PciAddrOf(n))

HasVfScript(n) ==
    /\ PortName(n) \in DOMAIN NetworkConfig
    /\ "pre_up" \in DOMAIN NetworkConfig[PortName(n)]["options"]

\* C26: in the final map of a host with the compute function, every
\* unbridged, unbonded ethernet interface with primary type pci-sriov has its
\* VF count set by exactly one mechanism: on a CX3 port its PCI address is in
\* the mlx4_core option and its resource has no pre_up script; on any other
\* port its resource is emitted with the pre_up script and its PCI address is
\* not in the mlx4_core option.
C26_OneVfMechanism ==
    pc = "done" /\ ComputeCapable =>
        \A n \in PlainSriovInterfaces :
            IF OnCx3Port(n)
            THEN InMlx4Options(n) /\ ~HasVfScript(n)
            ELSE HasVfScript(n) /\ ~InMlx4Options(n)

\* the same rule, on the interfaces that are not data interfaces as well
OneVfMechanismOffDataPath ==
    pc = "done" /\ ComputeCapable =>
        \A n \in PlainSriovInterfaces :
            /\ OnCx3Port(n) => InMlx4Options(n) /\ ~HasVfScript(n)
            /\ ~OnCx3Port(n) /\ ~DataFact(n) => HasVfScript(n) /\ ~InMlx4Options(n)

Finished == pc \in {"done", "failed"}

\* the position of the pass: the stage, then the interfaces already visited in it
Measure == 10 * StageRank(pc) - Len(todo)

\* C27: on the acyclic topologies, whose uses and used_by lists name indexed
\* interfaces only, a pass terminates: no recursive classifier runs into the
\* recursion limit, no stage short of the end is left without a step to take,
\* and every step moves the pass strictly forward in a bounded measure, so it
\* ends by returning the resource map or by a fatal error.
C27_PassTerminates ==
    /\ [](~HasCycle(db.interfaces) => error # "RuntimeError")
    /\ [](pc = "interfaces" => todo # <<>>)
    /\ [](Measure \in 0..70)
    /\ [](Finished <=> (returned # <<>> \/ error # NoErr))
    /\ [][Measure' > Measure]_vars

\* C27 witness: a pass that resolved bmc0 over a VLAN over a bond, three levels of
\* recursion down for the OS name and up for the platform test, and returned the map
C27_Witness ==
    /\ pc = "done"
    /\ returned # <<>>
    /\ "bmc0" \in DOMAIN interfaces
    /\ interfaces[interfaces["bmc0"]["uses"][1]]["iftype"] = "vlan"
    /\ interfaces[interfaces["bmc0"]["uses"][1]]["uses"] = <<"bond0">>
    /\ Memoized("bmc0", "_os_ifname")
    /\ Memoized("eth0", "_kernel")
    /\ interfaces["eth0"]["_kernel"]

====
